---------------------------- MODULE Spec2Model ----------------------------
(***************************************************************************)
(* Goal-directed browser automation: the goal loop (executeGoal), the      *)
(* action executor (executeAction), its retry wrapper                      *)
(* (executeActionWithRetry) and selector resolution (findElement) of       *)
(* TrulyIntelligentE2EGenerator, the page snapshotter with its selector    *)
(* ranker (getCurrentPageSnapshot), and the command server                 *)
(* (AIActionProcessor and the WebSocket sessions).                         *)
(*                                                                         *)
(* JavaScript strings are modelled as sequences of tokens, so that         *)
(* template strings are concatenations, "" and null/undefined are the      *)
(* empty sequence, and startsWith / parseInt read the leading token.       *)
(***************************************************************************)
EXTENDS Integers, Sequences, FiniteSets, TLC

VARIABLES
    pc,               \* position of the request handler / executeGoal / executeAction
    page,             \* this.page: Null until initialize() succeeds
    maxSteps,         \* this.maxSteps
    env,              \* which decision oracle / browser the run is driven by
    stepCount,        \* this.stepCount
    goalCompleted,    \* local goalCompleted of executeGoal
    executionHistory, \* this.executionHistory
    testSteps,        \* this.testSteps
    results,          \* local results of executeGoal
    pageSnapshot,     \* local pageSnapshot.elements of the current step
    decision,         \* local decision of the current step
    url,              \* local url of the navigate case
    success,          \* local success of executeAction
    errorMessage,     \* local errorMessage of executeAction
    playwrightCode,   \* local playwrightCode of executeAction
    selectors,        \* candidate selector list built by the running case
    attempt,          \* loop variable of executeActionWithRetry
    lastError,        \* lastError of executeActionWithRetry
    outcomes,         \* each invocation of action() in the running retry call: returned or the error thrown
    waits,            \* durations passed to waitForTimeout by the running retry call
    retryNotes,       \* 'retry' notifications broadcast by the running retry call
    ops,              \* browser operations issued by the running executeAction call
    emitted,          \* run-level notifications broadcast so far, by type
    calls,            \* snapshots taken, oracle calls and executeAction calls of the run
    shown,            \* the history lines put in the oracle prompt at the last call
    thrown,           \* whether executeAction threw to its caller
    stepError,        \* message of the error caught by executeGoal's catch
    report,           \* the object returned by executeGoal
    find,             \* a call of findElement: its arguments, loop state, clock and outcome
    stability,        \* a call of waitForStability: its await, the clock and the in-page observer
    twin,             \* what earlier calls did or returned, kept for comparison with a later call
    scan,             \* a run of the snapshot callback: its document, loop position and snapshot.elements
    chat              \* the command server: activeSessions, the clock and the message handlers in flight

mainVars == << pc, page, maxSteps, env, stepCount, goalCompleted, executionHistory,
           testSteps, results, pageSnapshot, decision, url, success, errorMessage,
           playwrightCode, selectors, attempt, lastError, outcomes, waits,
           retryNotes, ops, emitted, calls, shown, thrown, stepError, report,
           find, stability >>

vars == << mainVars, twin, scan, chat >>

-----------------------------------------------------------------------------
(* Bounds of the model.                                                    *)

\* Longest run explored with an unconstrained oracle and browser.
MaxFreeSteps == 2

\* Longest class attribute, in characters, and most children of one parent,
\* of the documents the selector ranker is run on.
MaxClassLen == 3
MaxChildren == 3

\* Most connections, messages and clock ticks of a run of the command
\* server, and most words of a chat message.
MaxConnections == 2
MaxMessages == 2
MaxClock == 1
MaxWords == 2
MaxGenerations == 2
MaxReplaySteps == 2

-----------------------------------------------------------------------------
(* Strings.                                                                *)

Null == << >>

Truthy(s) == s # Null

\* Array.prototype.filter(Boolean)
RECURSIVE FilterBoolean(_)
FilterBoolean(xs) ==
    IF xs = << >> THEN << >>
    ELSE IF Truthy(Head(xs)) THEN << Head(xs) >> \o FilterBoolean(Tail(xs))
    ELSE FilterBoolean(Tail(xs))

NaN == -1

\* The numerals the model's strings use, with their values.
Numeral ==
    [ t \in {"0", "1", "2", "3", "4", "7", "300", "500", "3000"} |->
        CASE t = "0" -> 0 [] t = "1" -> 1 [] t = "2" -> 2 [] t = "3" -> 3
          [] t = "4" -> 4 [] t = "7" -> 7 [] t = "300" -> 300
          [] t = "500" -> 500 [] t = "3000" -> 3000 ]

\* parseInt(s): the leading numeral of s, NaN when s has none (or is missing).
ParseInt(s) ==
    IF s # Null /\ Head(s) \in DOMAIN Numeral THEN Numeral[Head(s)] ELSE NaN

\* `${n}` for a number n.
NumberText(n) ==
    IF n = NaN THEN "NaN"
    ELSE CHOOSE t \in DOMAIN Numeral : Numeral[t] = n

\* x || dflt for a number x (NaN and 0 are falsy).
OrDefault(x, dflt) == IF x = NaN \/ x = 0 THEN dflt ELSE x

\* url.startsWith("http")
StartsWithHttp(s) == s # Null /\ Head(s) \in {"http", "http://", "https://"}

\* url of the navigate case
Url(d) == IF StartsWithHttp(d.target) THEN d.target ELSE << "https://" >> \o d.target

\* Whether page.goto accepts u: the browser navigates to absolute URLs only.
HasScheme(u) == u # Null /\ Head(u) \in { "http://", "https://" }


-----------------------------------------------------------------------------
(* Program constants.                                                      *)

\* this.maxSteps as the constructor sets it.
DefaultMaxSteps == 15

\* executeActionWithRetry(action, maxRetries = 3)
maxRetries == 3

\* waitForTimeout(1000 * attempt) between two attempts.
BackoffUnit == 1000

\* parseInt(decision.value) || 3000 and || 300
DefaultWait == 3000
DefaultScroll == 300

-----------------------------------------------------------------------------
(* Messages of the errors the executor meets, and the replay lines.        *)

MsgIndexNotFound(i) == << "Element index ", NumberText(i), " not found" >>
MsgUnknownAction(a) == << "Unknown action: ", a >>
MsgNotVisible == << "Element not visible" >>
MsgNoValidSelector == << "No valid selector found" >>
\* Messages of errors raised by the browser automation library and the JS runtime.
MsgTimeout(sel) == << "Timeout exceeded waiting for selector " >> \o sel
MsgDetached == << "Element is not attached to the DOM" >>
MsgClosed == << "Target page, context or browser has been closed" >>
MsgInvalidUrl == << "Protocol error (Page.navigate): Cannot navigate to invalid URL" >>
MsgNavigation == << "net::ERR_NAME_NOT_RESOLVED" >>
MsgTypeError == << "Cannot read properties of undefined (reading 'startsWith')" >>
MsgOracle == << "AI analysis failed: oracle call or JSON.parse failed" >>
MsgPageNotInitialized == << "Page not initialized" >>

CodeGoto(u) ==
    << "await page.goto('" >> \o u \o << "', { waitUntil: 'domcontentloaded' });" >>
CodeClick(sel) == << "await page.click('" >> \o sel \o << "');" >>
CodeFill(sel, v) == << "await page.fill('" >> \o sel \o << "', '" >> \o v \o << "');" >>
CodePress(key) == << "await page.keyboard.press('" >> \o key \o << "');" >>
CodeWait(ms) == << "await page.waitForTimeout(", NumberText(ms), ");" >>
CodeScroll(n) == << "await page.evaluate(() => window.scrollBy(0, ", NumberText(n), "));" >>
CodeHover(sel) == << "await page.hover('" >> \o sel \o << "');" >>
CodeGoal(goal) == << "// Goal: \"" >> \o goal \o << "\" completed successfully" >>
CodeFailed(description, msg) == << "// Failed: " >> \o description \o << " - " >> \o msg

\* The selectors the executor derives from a descriptor's id and test-id.
IdSelector(id) == << "#" >> \o id
TestIdSelector(t) == << "[data-testid=\"" >> \o t \o << "\"]" >>

-----------------------------------------------------------------------------
(* Element descriptors, as processElement builds them (the fields the      *)
(* executor reads), and the snapshots the runs meet.                       *)

Descriptor(id, testId, primary, fallback, tertiary) ==
    [ id |-> id, dataTestId |-> testId, selector |-> primary,
      fallbackSelector |-> fallback, tertiarySelector |-> tertiary ]

\* <button id="login" class="btn">Log in</button>
ElLogin ==
    Descriptor(<< "login" >>, Null, << "#", "login" >>,
               << "button:has-text(\"Log in\")" >>, << "button.btn" >>)
\* <input data-testid="q" name="q" placeholder="Search">
ElSearch ==
    Descriptor(Null, << "q" >>, << "[data-testid=\"", "q", "\"]" >>,
               << "input[name=\"q\"]" >>, << "[placeholder=\"Search\"]" >>)
\* <a id="go" data-testid="go-link">Go</a>
ElGo ==
    Descriptor(<< "go" >>, << "go-link" >>, << "#", "go" >>,
               << "[data-testid=\"", "go-link", "\"]" >>, Null)
\* <div id="1st" class="card">text</div>: the id is not a safe identifier
ElCard == Descriptor(<< "1st" >>, Null, << "div.card" >>, Null, Null)
\* <p>text</p>, an only child: the ranker finds no candidate
ElPlain == Descriptor(Null, Null, Null, Null, Null)

SnapshotEmpty == << >>
SnapshotForm == << ElLogin, ElSearch >>
SnapshotFive == << ElLogin, ElSearch, ElGo, ElCard, ElPlain >>

\* pageSnapshot.elements[i] for a parsed index i: undefined outside 0..length-1.
HasElement(elements, i) == i >= 0 /\ i < Len(elements)
ElementAt(elements, i) == elements[i + 1]

-----------------------------------------------------------------------------
(* Decisions, as the oracle replies them.                                  *)

Goal == << "go to example.com" >>

Actions ==
    { "navigate", "click", "type", "press", "wait", "scroll", "complete",
      "hover", "clear" }

\* waitAfter is TRUE for a reply that leaves it out: the code tests !== false.
Decision(action, target, value, selector, fallbacks, waitBefore, waitAfter) ==
    [ action |-> action, target |-> target, value |-> value,
      selector |-> selector, fallbackSelectors |-> fallbacks,
      waitBefore |-> waitBefore, waitAfter |-> waitAfter,
      description |-> << "do ", action >>, reasoning |-> << "because" >>,
      confidence |-> << "high" >> ]

Plain(action, target, value) ==
    Decision(action, target, value, Null, << >>, FALSE, TRUE)

NoDecision == Plain("none", Null, Null)

-----------------------------------------------------------------------------
(* Candidate selector lists of the element-targeting cases.                *)

\* The click list when the id is promoted after the test-id, ending in front.
ClickSelectorsIdFirst(d, el) ==
    LET base == FilterBoolean(<< d.selector, el.selector, el.fallbackSelector,
                                 el.tertiarySelector >> \o d.fallbackSelectors)
        withTestId == IF Truthy(el.dataTestId)
                      THEN << TestIdSelector(el.dataTestId) >> \o base ELSE base
    IN  IF Truthy(el.id) THEN << IdSelector(el.id) >> \o withTestId ELSE withTestId

ClickSelectors(d, el) ==
    LET base == FilterBoolean(<< d.selector, el.selector, el.fallbackSelector,
                                 el.tertiarySelector >> \o d.fallbackSelectors)
        withId == IF Truthy(el.id) THEN << IdSelector(el.id) >> \o base ELSE base
    IN  IF Truthy(el.dataTestId)
        THEN << TestIdSelector(el.dataTestId) >> \o withId
        ELSE withId

TypeSelectors(d, el) ==
    FilterBoolean(<< d.selector, el.selector, el.fallbackSelector >>
                  \o d.fallbackSelectors)

ClearSelectors(d, el) ==
    FilterBoolean(<< d.selector, el.selector, el.fallbackSelector >>)

HoverSelectors(d, el) ==
    FilterBoolean(<< d.selector, el.selector, el.fallbackSelector >>)

-----------------------------------------------------------------------------
(* findElement.  The page answers each waitForSelector by the status of    *)
(* the selector's first match: absent (the wait times out), detached       *)
(* (isVisible rejects), hidden, disabled, or ok (visible and enabled).     *)

Status == { "absent", "detached", "hidden", "disabled", "ok" }

Range(xs) == { xs[i] : i \in DOMAIN xs }

RECURSIVE FindFrom(_, _, _, _)
FindFrom(sels, st, lastErr, tried) ==
    IF sels = << >>
    THEN [ found |-> FALSE, selector |-> Null, tried |-> tried,
           error |-> IF lastErr # Null THEN lastErr ELSE MsgNoValidSelector ]
    ELSE LET s == Head(sels) IN
         IF ~Truthy(s) THEN FindFrom(Tail(sels), st, lastErr, tried)
         ELSE CASE st[s] = "ok" ->
                     [ found |-> TRUE, selector |-> s, tried |-> Append(tried, s),
                       error |-> Null ]
                [] st[s] = "absent" ->
                     FindFrom(Tail(sels), st, MsgTimeout(s), Append(tried, s))
                [] st[s] = "detached" ->
                     FindFrom(Tail(sels), st, MsgDetached, Append(tried, s))
                [] OTHER ->
                     FindFrom(Tail(sels), st, lastErr, Append(tried, s))

FindElement(sels, st) == FindFrom(sels, st, Null, << >>)

\* The page states an attempt may meet, for the candidate list sels: nothing
\* matches, everything is hidden, everything is usable, and the first
\* candidate is disabled while the others are usable.
PageStates(sels) ==
    LET S == Range(sels) IN
    { [ s \in S |-> "absent" ], [ s \in S |-> "hidden" ], [ s \in S |-> "ok" ],
      [ s \in S |-> IF sels # << >> /\ s = Head(sels) THEN "disabled" ELSE "ok" ] }

-----------------------------------------------------------------------------
(* One invocation of the closure handed to executeActionWithRetry: the     *)
(* browser operations it issues, whether it returns or throws, and the     *)
(* replay line it leaves in playwrightCode when it sets one.               *)

\* fault: which browser operation of the run failed: none, the first one
\* issued, or a later one.
Returned(o, code) ==
    [ ok |-> TRUE, err |-> Null, code |-> code, ops |-> o, fault |-> "none" ]
Recovered(o, code) ==
    [ ok |-> TRUE, err |-> Null, code |-> code, ops |-> o, fault |-> "later" ]
Threw(o, msg) ==
    [ ok |-> FALSE, err |-> msg, code |-> Null, ops |-> o,
      fault |-> IF Len(o) <= 1 THEN "first" ELSE "later" ]

WaitOps(f) == [ i \in 1..Len(f.tried) |-> "waitForSelector" ]

ClickRuns(d, f) ==
    LET pre == WaitOps(f)
               \o << "scrollIntoViewIfNeeded", "waitForTimeout(500)", "boundingBox" >>
    IN  { Returned(pre \o << "click" >>, CodeClick(f.selector)),
          Recovered(pre \o << "click", "evaluate" >>, CodeClick(f.selector)),
          Threw(pre, MsgNotVisible),
          Threw(pre \o << "click", "evaluate" >>, MsgClosed) }

TypeRuns(d, f) ==
    LET pre == WaitOps(f)
               \o << "scrollIntoViewIfNeeded", "waitForTimeout(300)", "click" >>
    IN  { Returned(pre \o << "waitForTimeout(100)", "keyboard.press",
                           "keyboard.press", "type" >>,
                   CodeFill(f.selector, d.value)),
          Threw(pre, MsgClosed) }

ClearRuns(d, f) ==
    { Returned(WaitOps(f) \o << "fill" >>, CodeFill(f.selector, Null)),
      Threw(WaitOps(f) \o << "fill" >>, MsgClosed) }

HoverRuns(d, f) ==
    { Returned(WaitOps(f) \o << "hover" >>, CodeHover(f.selector)),
      Threw(WaitOps(f) \o << "hover" >>, MsgClosed) }

\* findElement throws: the closure ends there.  With no candidate at all no
\* browser operation was issued.
NotFound(f) ==
    [ ok |-> FALSE, err |-> f.error, code |-> Null, ops |-> WaitOps(f),
      fault |-> IF f.tried = << >> THEN "none" ELSE "first" ]

ElementRuns(d, f) ==
    IF ~f.found THEN { NotFound(f) }
    ELSE CASE d.action = "click" -> ClickRuns(d, f)
           [] d.action = "type" -> TypeRuns(d, f)
           [] d.action = "clear" -> ClearRuns(d, f)
           [] OTHER -> HoverRuns(d, f)

ElementActions == { "click", "type", "clear", "hover" }

ActionRuns(d, sels, states) ==
    CASE d.action = "navigate" ->
           IF HasScheme(Url(d))
           THEN { Returned(<< "goto" >>, Null), Threw(<< "goto" >>, MsgNavigation) }
           ELSE { [ ok |-> FALSE, err |-> MsgInvalidUrl, code |-> Null,
                    ops |-> << "goto" >>, fault |-> "none" ] }
      [] d.action = "press" ->
           { Returned(<< "keyboard.press" >>, Null),
             Threw(<< "keyboard.press" >>, MsgClosed) }
      [] d.action = "scroll" ->
           { Returned(<< "evaluate" >>, Null), Threw(<< "evaluate" >>, MsgClosed) }
      [] OTHER ->
           UNION { ElementRuns(d, FindElement(sels, st)) : st \in states }

-----------------------------------------------------------------------------
(* The environment of a run: the oracle's replies, the snapshots the page  *)
(* gives and the failures of the browser.  "open" and "menu" leave all of  *)
(* them free; the other environments are oracle stubs over a healthy       *)
(* browser, run with the default step ceiling.                             *)

Stubs == { "never", "first", "last", "demo" }

Healthy(e) == e \in Stubs

\* The replies of an unconstrained oracle met by the goal loop.
MenuReplies ==
    { Plain("navigate", << "example.com" >>, Null),
      Plain("navigate", Null, Null),
      Plain("click", << "0" >>, Null),
      Plain("click", << "7" >>, Null),
      Plain("type", << "1" >>, << "hello" >>),
      Plain("type", << "x" >>, << "hello" >>),
      Plain("clear", << "1" >>, Null),
      Plain("clear", << "7" >>, Null),
      Plain("hover", << "0" >>, Null),
      Plain("hover", Null, Null),
      Plain("press", << "Enter" >>, Null),
      Plain("wait", Null, << "500" >>),
      Plain("scroll", Null, Null),
      Plain("complete", Null, Null),
      Plain("dance", Null, Null),
      Decision("press", << "Enter" >>, Null, Null, << >>, TRUE, TRUE),
      Decision("click", << "1" >>, Null, << "button.primary" >>, << >>, FALSE, FALSE) }

\* The replies a single call of executeAction is explored with.
OpenReplies ==
    { Decision(a, t, Null, s, f, w[1], w[2]) :
        a \in ElementActions,
        t \in { << "0" >>, << "2" >>, << "3" >>, << "4" >>, << "7" >>, Null },
        s \in { Null, << "button.primary" >> },
        f \in { << >>, << << "text=Go" >> >>, << << "a.cta" >>, Null, << "text=Go" >> >> },
        w \in { << FALSE, TRUE >>, << TRUE, FALSE >> } }
    \cup { Decision(a, t, v, Null, << >>, w[1], w[2]) :
        a \in (Actions \ ElementActions) \cup { "dance", "undefined" },
        t \in { << "https://", "example.com" >>, << "http://", "example.com" >>,
                << "example.com" >>, << "http", "bin.org" >>, Null },
        v \in { Null, << "500" >> },
        w \in { << FALSE, TRUE >>, << TRUE, FALSE >> } }

\* The reply of an oracle stub at step n.
StubReply(e, n) ==
    CASE e = "first" -> Plain("complete", Null, Null)
      [] e = "last" ->
           IF n < DefaultMaxSteps THEN Plain("scroll", Null, Null)
           ELSE Plain("complete", Null, Null)
      [] e = "demo" ->
           IF n = 1 THEN Plain("navigate", << "example.com" >>, Null)
           ELSE Plain("complete", Null, Null)
      [] OTHER ->
           CASE n % 3 = 1 -> Plain("navigate", << "example.com" >>, Null)
             [] n % 3 = 2 -> Plain("click", << "7" >>, Null)
             [] OTHER -> Plain("hover", << "0" >>, Null)

Replies(e, n) ==
    CASE e = "menu" -> MenuReplies
      [] e = "open" -> OpenReplies
      [] OTHER -> { StubReply(e, n) }

Snapshots(e) ==
    CASE e = "menu" -> { SnapshotEmpty, SnapshotForm }
      [] e = "open" -> { SnapshotEmpty, SnapshotForm, SnapshotFive }
      [] OTHER -> { SnapshotFive }

\* Whether an awaited browser or oracle call may reject in environment e.
MayFail(e) == ~Healthy(e)

\* The runs of the retried closure in environment e.  A healthy browser
\* shows every candidate usable and rejects nothing; the browser of "menu"
\* shows every candidate or none and fails at the first operation or not at
\* all; the browser of "open" is unconstrained.
Runs(e, d, sels) ==
    CASE Healthy(e) ->
           { o \in ActionRuns(d, sels, { [ s \in Range(sels) |-> "ok" ] }) :
               o.fault = "none" }
      [] e = "menu" ->
           { o \in ActionRuns(d, sels, { [ s \in Range(sels) |-> "ok" ],
                                         [ s \in Range(sels) |-> "absent" ] }) :
               o.fault # "later" }
      [] OTHER -> ActionRuns(d, sels, PageStates(sels))

-----------------------------------------------------------------------------
(* Helpers of the state machine.                                           *)

EmittedTypes ==
    { "goal_completed", "max_steps_reached", "warning", "error",
      "execution_complete", "execution_error" }

Emit(e, type) == [ e EXCEPT ![type] = @ + 1 ]

\* The window when it is taken from the start of the array: slice(0, n).
FirstN(xs, n) == IF Len(xs) <= n THEN xs ELSE SubSeq(xs, 1, n)

\* Array.prototype.slice(-n)
LastN(xs, n) ==
    IF Len(xs) <= n THEN xs ELSE SubSeq(xs, Len(xs) - n + 1, Len(xs))

\* Array.prototype.join("\n") of strings
RECURSIVE JoinLines(_)
JoinLines(xs) ==
    IF xs = << >> THEN << >>
    ELSE IF Len(xs) = 1 THEN Head(xs)
    ELSE Head(xs) \o << "\n" >> \o JoinLines(Tail(xs))

GenerateTestCode(testName, steps) ==
    << "const { test, expect } = require('@playwright/test');\n\ntest('" >>
    \o testName
    \o << "', async ({ page }) => {\n    page.setDefaultTimeout(30000);\n    page.setDefaultNavigationTimeout(45000);\n    \n" >>
    \o JoinLines(steps)
    \o << "\n});" >>

CountWhere(rs, flag) == Cardinality({ i \in DOMAIN rs : rs[i].success = flag })

NoReport ==
    [ kind |-> "none", success |-> FALSE, error |-> Null, steps |-> << >>,
      testCode |-> Null, totalSteps |-> 0, successfulSteps |-> 0,
      failedSteps |-> 0, goalCompleted |-> FALSE ]

runVars == << page, maxSteps, env, find, stability, twin, scan, chat >>
histVars == << executionHistory, testSteps, results >>
stepVars == << pageSnapshot, decision, url >>
resultVars == << success, errorMessage, playwrightCode >>
retryVars == << attempt, lastError, outcomes, waits, retryNotes >>
loopVars == << stepCount, goalCompleted, emitted, shown, stepError, report >>

\* The catch block when it leaves the success flag as the case set it.
CaughtKeepingSuccess(msg) ==
    /\ success' = success
    /\ errorMessage' = msg
    /\ playwrightCode' = CodeFailed(decision.description, msg)
    /\ pc' = "record"

\* The catch block of executeAction.
Caught(msg) ==
    /\ success' = FALSE
    /\ errorMessage' = msg
    /\ playwrightCode' = CodeFailed(decision.description, msg)
    /\ pc' = "record"

\* The settle condition when a decision of low confidence is not settled.
AfterCaseByConfidence(d) ==
    IF d.waitAfter /\ d.action # "wait" /\ d.action # "complete"
       /\ d.confidence # << "low" >>
    THEN "settle" ELSE "record"

\* Where executeAction goes after the switch: the post-action settle or the result.
AfterCase(d) ==
    IF d.waitAfter /\ d.action # "wait" /\ d.action # "complete"
    THEN "settle" ELSE "record"

-----------------------------------------------------------------------------
(* executeAction.                                                          *)

\* Entry: the page guard, the locals, and the optional wait before the action.
BeginAction ==
    /\ pc = "execute"
    /\ IF page = Null
       THEN /\ thrown' = TRUE
            /\ stepError' = MsgPageNotInitialized
            /\ pc' = "catch"
            /\ UNCHANGED << resultVars, selectors, ops, calls, retryVars >>
       ELSE /\ calls' = [ calls EXCEPT !.execute = @ + 1 ]
            /\ selectors' = << >>
            /\ attempt' = 0
            /\ lastError' = Null
            /\ outcomes' = << >>
            /\ waits' = << >>
            /\ retryNotes' = 0
            /\ UNCHANGED << thrown, stepError >>
            /\ IF decision.waitBefore
               THEN /\ ops' = << "waitForTimeout(2000)" >>
                    /\ \/ /\ pc' = "switch"
                          /\ success' = FALSE
                          /\ errorMessage' = Null
                          /\ playwrightCode' = Null
                       \/ /\ MayFail(env)
                          /\ Caught(MsgClosed)
               ELSE /\ ops' = << >>
                    /\ pc' = "switch"
                    /\ success' = FALSE
                    /\ errorMessage' = Null
                    /\ playwrightCode' = Null
    /\ UNCHANGED << runVars, histVars, stepVars, stepCount, goalCompleted, emitted,
                    shown, report >>

\* A case that calls executeActionWithRetry: the loop starts at attempt 1.
StartRetry(sels) ==
    /\ selectors' = sels
    /\ attempt' = 1
    /\ pc' = "attempt"
    /\ UNCHANGED << resultVars, ops >>

\* The switch on decision.action, up to its first awaited call.
Switch ==
    /\ pc = "switch"
    /\ LET d == decision
           i == ParseInt(d.target)
           has == HasElement(pageSnapshot, i)
       IN  CASE d.action = "navigate" ->
                  IF d.target = Null
                  THEN Caught(MsgTypeError) /\ UNCHANGED << selectors, attempt, ops >>
                  ELSE StartRetry(<< >>)
             [] d.action = "click" ->
                  IF ~has
                  THEN Caught(MsgIndexNotFound(i)) /\ UNCHANGED << selectors, attempt, ops >>
                  ELSE StartRetry(ClickSelectors(d, ElementAt(pageSnapshot, i)))
             [] d.action = "type" ->
                  IF ~has
                  THEN Caught(MsgIndexNotFound(i)) /\ UNCHANGED << selectors, attempt, ops >>
                  ELSE StartRetry(TypeSelectors(d, ElementAt(pageSnapshot, i)))
             [] d.action = "clear" ->
                  IF has
                  THEN StartRetry(ClearSelectors(d, ElementAt(pageSnapshot, i)))
                  ELSE /\ pc' = AfterCase(d)
                       /\ UNCHANGED << resultVars, selectors, attempt, ops >>
             [] d.action = "hover" ->
                  IF has
                  THEN StartRetry(HoverSelectors(d, ElementAt(pageSnapshot, i)))
                  ELSE /\ pc' = AfterCase(d)
                       /\ UNCHANGED << resultVars, selectors, attempt, ops >>
             [] d.action \in { "press", "scroll" } -> StartRetry(<< >>)
             [] d.action = "wait" ->
                  LET waitTime == OrDefault(ParseInt(d.value), DefaultWait) IN
                  /\ ops' = Append(ops, "waitForTimeout(value)")
                  /\ UNCHANGED << selectors, attempt >>
                  /\ \/ /\ success' = TRUE
                        /\ playwrightCode' = CodeWait(waitTime)
                        /\ pc' = AfterCase(d)
                        /\ UNCHANGED errorMessage
                     \/ /\ MayFail(env)
                        /\ Caught(MsgClosed)
             [] d.action = "complete" ->
                  /\ success' = TRUE
                  /\ playwrightCode' = CodeGoal(Goal)
                  /\ pc' = AfterCase(d)
                  /\ UNCHANGED << errorMessage, selectors, attempt, ops >>
             [] OTHER ->
                  Caught(MsgUnknownAction(d.action))
                  /\ UNCHANGED << selectors, attempt, ops >>
    /\ url' = IF decision.action = "navigate" /\ decision.target # Null
              THEN Url(decision) ELSE Null
    /\ UNCHANGED << runVars, histVars, pageSnapshot, decision, loopVars, lastError,
                    outcomes, waits, retryNotes, calls, thrown >>

\* The statements of a case that follow a returning executeActionWithRetry
\* when none of them is awaited.
Succeeded(code) ==
    /\ playwrightCode' = code
    /\ success' = TRUE
    /\ pc' = AfterCase(decision)
    /\ UNCHANGED errorMessage

\* for (let attempt = 1; attempt <= maxRetries; attempt++)
WithinRetries(n) == n <= maxRetries

\* The test when the last failed attempt is announced as a retry too.
RetryPendingAtLast(n) == n <= maxRetries

\* if (attempt < maxRetries): the 'retry' notification and the wait
RetryPending(n) == n < maxRetries

\* The wait between attempts when it does not grow with the attempt number.
BackoffDelayFlat(n) == BackoffUnit

\* waitForTimeout(1000 * attempt)
BackoffDelay(n) == BackoffUnit * n

\* The end of one iteration of the retry loop after a throwing action():
\* attempt++ and the loop test; leaving the loop throws lastError.
NextIteration(err) ==
    /\ attempt' = attempt + 1
    /\ IF WithinRetries(attempt + 1)
       THEN pc' = "attempt" /\ UNCHANGED resultVars
       ELSE Caught(err)

\* executeActionWithRetry: one invocation of action() inside the for loop,
\* with the statements of the case that follow a returning call.
Attempt ==
    /\ pc = "attempt"
    /\ \E o \in Runs(env, decision, selectors) :
         /\ outcomes' = Append(outcomes, [ ok |-> o.ok, err |-> IF o.ok THEN Null ELSE o.err ])
         /\ IF o.ok
            THEN /\ UNCHANGED << lastError, retryNotes, attempt >>
                 /\ CASE decision.action = "navigate" ->
                           /\ ops' = ops \o o.ops \o << "waitForStability" >>
                           /\ Succeeded(CodeGoto(url))
                      [] decision.action = "press" ->
                           /\ ops' = ops \o o.ops
                           /\ Succeeded(CodePress(decision.target))
                      [] decision.action = "scroll" ->
                           LET scrollAmount ==
                                   OrDefault(ParseInt(decision.value), DefaultScroll)
                           IN  /\ ops' = ops \o o.ops \o << "waitForTimeout(1000)" >>
                               /\ \/ Succeeded(CodeScroll(scrollAmount))
                                  \/ MayFail(env) /\ Caught(MsgClosed)
                      [] OTHER ->
                           /\ ops' = ops \o o.ops
                           /\ Succeeded(o.code)
            ELSE /\ lastError' = o.err
                 /\ ops' = ops \o o.ops
                 /\ IF RetryPending(attempt)
                    THEN /\ retryNotes' = retryNotes + 1
                         /\ pc' = "backoff"
                         /\ UNCHANGED << resultVars, attempt >>
                    ELSE /\ NextIteration(o.err)
                         /\ UNCHANGED retryNotes
    /\ UNCHANGED << runVars, histVars, stepVars, loopVars, selectors, waits, calls,
                    thrown >>

\* executeActionWithRetry: the wait between two attempts.
Backoff ==
    /\ pc = "backoff"
    /\ waits' = Append(waits, BackoffDelay(attempt))
    /\ ops' = Append(ops, "waitForTimeout(backoff)")
    /\ \/ NextIteration(lastError)
       \/ /\ MayFail(env)
          /\ Caught(MsgClosed)
          /\ UNCHANGED attempt
    /\ UNCHANGED << runVars, histVars, stepVars, loopVars, selectors, lastError,
                    outcomes, retryNotes, calls, thrown >>

\* The post-action settle: the fixed pause, then the stability wait.
Settle ==
    /\ pc = "settle"
    /\ \/ /\ ops' = ops \o << "waitForTimeout(1500)", "waitForStability" >>
          /\ pc' = "record"
          /\ UNCHANGED resultVars
       \/ /\ MayFail(env)
          /\ ops' = Append(ops, "waitForTimeout(1500)")
          /\ Caught(MsgClosed)
    /\ UNCHANGED << runVars, histVars, stepVars, loopVars, selectors, retryVars,
                    calls, thrown >>

\* The result object of executeAction.
Result(d, ok, err, code) ==
    [ action |-> d.action, target |-> d.target, value |-> d.value,
      description |-> d.description, success |-> ok, error |-> err,
      reasoning |-> d.reasoning, confidence |-> d.confidence,
      playwrightCode |-> code ]

\* The line pushed to this.testSteps.
ReplayLine(code) == << "    " >> \o code

\* The locals of executeAction and of the retry call, once they are out of scope.
OutOfScope ==
    /\ success' = FALSE
    /\ errorMessage' = Null
    /\ playwrightCode' = Null
    /\ selectors' = << >>
    /\ attempt' = 0
    /\ lastError' = Null
    /\ outcomes' = << >>
    /\ waits' = << >>
    /\ retryNotes' = 0
    /\ ops' = << >>

\* The records when the replay line of a failed action is left out.
RecordSkippingFailed ==
    /\ pc = "record"
    /\ LET result == Result(decision, success, errorMessage, playwrightCode)
       IN  /\ executionHistory' = Append(executionHistory, result)
           /\ testSteps' = IF success THEN Append(testSteps, ReplayLine(playwrightCode))
                           ELSE testSteps
           /\ results' = Append(results, result)
           /\ IF decision.action = "complete"
              THEN /\ goalCompleted' = TRUE
                   /\ emitted' = Emit(emitted, "goal_completed")
              ELSE /\ emitted' = IF ~result.success THEN Emit(emitted, "warning")
                                 ELSE emitted
                   /\ UNCHANGED goalCompleted
    /\ OutOfScope
    /\ pc' = "pause"
    /\ UNCHANGED << runVars, stepVars, calls, thrown, stepCount, shown, stepError,
                    report >>

\* executeAction records its result and returns it; executeGoal keeps it and
\* looks at the decision.
Record ==
    /\ pc = "record"
    /\ LET result == Result(decision, success, errorMessage, playwrightCode)
       IN  /\ executionHistory' = Append(executionHistory, result)
           /\ testSteps' = Append(testSteps, ReplayLine(playwrightCode))
           /\ results' = Append(results, result)
           /\ IF decision.action = "complete"
              THEN /\ goalCompleted' = TRUE
                   /\ emitted' = Emit(emitted, "goal_completed")
              ELSE /\ emitted' = IF ~result.success THEN Emit(emitted, "warning")
                                 ELSE emitted
                   /\ UNCHANGED goalCompleted
    /\ OutOfScope
    /\ pc' = "pause"
    /\ UNCHANGED << runVars, stepVars, calls, thrown, stepCount, shown, stepError,
                    report >>

-----------------------------------------------------------------------------
(* The request handler and executeGoal.                                    *)

\* initialize(): the browser launches and this.page is set, or the handler
\* answers 500 without calling executeGoal.
Initialize ==
    /\ pc = "new"
    /\ \/ page' = << "page" >> /\ pc' = "ready"
       \/ MayFail(env) /\ pc' = "initFailed" /\ UNCHANGED page
    /\ UNCHANGED << maxSteps, env, find, stability, twin, scan, chat, histVars, stepVars, resultVars, selectors,
                    retryVars, ops, calls, thrown, loopVars >>

\* executeGoal up to the loop: the run's state is reset and the page settles.
StartGoal ==
    /\ pc = "ready"
    /\ executionHistory' = << >>
    /\ testSteps' = << >>
    /\ stepCount' = 0
    /\ results' = << >>
    /\ goalCompleted' = FALSE
    /\ pc' = "loop"
    /\ UNCHANGED << runVars, stepVars, resultVars, selectors, retryVars, ops, calls,
                    thrown, emitted, shown, stepError, report >>

\* The loop test off by one: a step is still started at the ceiling.
LoopContinuesPastCeiling(completed, n, ceiling) == ~completed /\ n <= ceiling

\* The loop test when the completion flag is not consulted.
LoopContinuesAfterComplete(completed, n, ceiling) == n < ceiling

\* The loop test when a failed action ends the loop.
LoopContinuesUnlessFailed(completed, n, ceiling) ==
    /\ ~completed
    /\ n < ceiling
    /\ (results = << >> \/ results[Len(results)].success)

\* while (!goalCompleted && this.stepCount < this.maxSteps)
LoopContinues(completed, n, ceiling) == ~completed /\ n < ceiling

\* The loop test and, when it holds, this.stepCount++.
LoopTest ==
    /\ pc = "loop"
    /\ IF LoopContinues(goalCompleted, stepCount, maxSteps)
       THEN stepCount' = stepCount + 1 /\ pc' = "screenshot"
       ELSE pc' = "exit" /\ UNCHANGED stepCount
    /\ UNCHANGED << runVars, histVars, stepVars, resultVars, selectors, retryVars,
                    ops, calls, thrown, goalCompleted, emitted, shown, stepError,
                    report >>

\* An error that only ends the loop, as a completed run does.
EscapesToExit(msg) == stepError' = msg /\ pc' = "exit"

\* An error that escapes to the catch block of executeGoal.
Escapes(msg) == stepError' = msg /\ pc' = "catch"

TakeScreenshot ==
    /\ pc = "screenshot"
    /\ IF page = Null
       THEN Escapes(MsgPageNotInitialized)
       ELSE \/ pc' = "snapshot" /\ UNCHANGED stepError
            \/ MayFail(env) /\ Escapes(MsgClosed)
    /\ UNCHANGED << runVars, histVars, stepVars, resultVars, selectors, retryVars,
                    ops, calls, thrown, stepCount, goalCompleted, emitted, shown,
                    report >>

GetCurrentPageSnapshot ==
    /\ pc = "snapshot"
    /\ calls' = [ calls EXCEPT !.snapshot = @ + 1 ]
    /\ \/ /\ pageSnapshot' \in Snapshots(env)
          /\ pc' = "decide"
          /\ UNCHANGED stepError
       \/ /\ MayFail(env)
          /\ Escapes(MsgClosed)
          /\ UNCHANGED pageSnapshot
    /\ UNCHANGED url
    /\ UNCHANGED << runVars, histVars, decision, resultVars, selectors, retryVars,
                    ops, thrown, stepCount, goalCompleted, emitted, shown, report >>

\* The HISTORY block of the prompt is built from executionHistory.slice(-5).
HistoryWindow == 5

DecideNextAction ==
    /\ pc = "decide"
    /\ calls' = [ calls EXCEPT !.oracle = @ + 1 ]
    /\ shown' = LastN(executionHistory, HistoryWindow)
    /\ \/ /\ decision' \in Replies(env, stepCount)
          /\ pc' = "execute"
          /\ UNCHANGED << stepError, emitted >>
       \/ /\ MayFail(env)
          /\ emitted' = Emit(emitted, "error")
          /\ Escapes(MsgOracle)
          /\ UNCHANGED decision
    /\ UNCHANGED url
    /\ UNCHANGED << runVars, histVars, pageSnapshot, resultVars, selectors, retryVars,
                    ops, thrown, stepCount, goalCompleted, report >>

\* await this.page.waitForTimeout(1000) at the end of the loop body.
Pause ==
    /\ pc = "pause"
    /\ \/ pc' = "loop" /\ UNCHANGED stepError
       \/ MayFail(env) /\ Escapes(MsgClosed)
    /\ pageSnapshot' = << >>
    /\ decision' = NoDecision
    /\ url' = Null
    /\ UNCHANGED << runVars, histVars, resultVars, selectors, retryVars,
                    ops, calls, thrown, stepCount, goalCompleted, emitted, shown,
                    report >>

\* if (this.stepCount >= this.maxSteps)
CeilingReached(n, ceiling) == n >= ceiling

\* After the loop: the max-steps signal and the final report.
Finish ==
    /\ pc = "exit"
    /\ emitted' =
         Emit(IF CeilingReached(stepCount, maxSteps)
              THEN Emit(emitted, "max_steps_reached") ELSE emitted,
              "execution_complete")
    /\ report' =
         [ kind |-> "final",
           success |-> goalCompleted \/ CountWhere(results, TRUE) > 0,
           error |-> Null,
           steps |-> results,
           testCode |-> GenerateTestCode(Goal, testSteps),
           totalSteps |-> stepCount,
           successfulSteps |-> CountWhere(results, TRUE),
           failedSteps |-> CountWhere(results, FALSE),
           goalCompleted |-> goalCompleted ]
    /\ pc' = "done"
    /\ UNCHANGED << runVars, histVars, stepVars, resultVars, selectors, retryVars,
                    ops, calls, thrown, stepCount, goalCompleted, shown, stepError >>

\* The catch block of executeGoal: the error report.
CatchGoal ==
    /\ pc = "catch"
    /\ emitted' = Emit(emitted, "execution_error")
    /\ report' =
         [ kind |-> "error",
           success |-> FALSE,
           error |-> stepError,
           steps |-> results,
           testCode |-> GenerateTestCode(Goal, testSteps),
           totalSteps |-> stepCount,
           successfulSteps |-> CountWhere(results, TRUE),
           failedSteps |-> CountWhere(results, FALSE),
           goalCompleted |-> FALSE ]
    /\ pageSnapshot' = << >>
    /\ decision' = NoDecision
    /\ url' = Null
    /\ pc' = "done"
    /\ UNCHANGED << runVars, histVars, resultVars, selectors, retryVars,
                    ops, calls, thrown, stepCount, goalCompleted, shown, stepError >>

-----------------------------------------------------------------------------
(* findElement, one iteration of its loop at a time, with the clock.       *)
(* Date.now() is counted in ms from the start of the call.                 *)

\* findElement(selectors, timeout = 10000)
DefaultTimeout == 10000

\* Math.max(endTime - Date.now(), 1000)
FloorTime == 1000

\* A call that has not started its loop.
FindCall(sels, st, timeout) ==
    [ sels |-> sels, st |-> st, timeout |-> timeout, now |-> 0, i |-> 1,
      tried |-> << >>, granted |-> << >>, waited |-> 0, lastError |-> Null,
      state |-> "loop", selector |-> Null, error |-> Null ]

\* No call of findElement is being followed.
NoFind == [ state |-> "none" ]

\* const remainingTime = Math.max(endTime - Date.now(), 1000)
RemainingTime(f) ==
    LET left == f.timeout - f.now IN IF left > FloorTime THEN left ELSE FloorTime

\* How long waitForSelector may take to resolve for an attached element.
ResolveDelays == { 0, 500 }

\* isVisible && isEnabled, when the element's enabled state is not looked at.
QualifiesVisible(status) == status \in { "ok", "disabled" }

\* if (isVisible && isEnabled)
Qualifies(status) == status = "ok"

\* One iteration of the for loop: a falsy candidate is skipped; an absent
\* one uses up its timeout and the wait throws; an attached one resolves
\* and is returned when visible and enabled.
FindNext ==
    /\ pc = "findElement"
    /\ find.state = "loop"
    /\ find.i <= Len(find.sels)
    /\ LET s == find.sels[find.i]
           step == [ find EXCEPT !.i = @ + 1 ]
           remainingTime == RemainingTime(find)
           waiting == [ step EXCEPT !.tried = Append(@, s),
                                    !.granted = Append(@, remainingTime) ]
       IN  IF ~Truthy(s)
           THEN find' = step
           ELSE CASE find.st[s] = "absent" ->
                       find' = [ waiting EXCEPT !.now = @ + remainingTime,
                                                !.waited = @ + remainingTime,
                                                !.lastError = MsgTimeout(s) ]
                  [] OTHER ->
                       \E d \in { x \in ResolveDelays : x <= remainingTime } :
                          LET resolved == [ waiting EXCEPT !.now = @ + d,
                                                           !.waited = @ + d ]
                          IN  find' =
                                CASE find.st[s] = "detached" ->
                                       [ resolved EXCEPT !.lastError = MsgDetached ]
                                  [] Qualifies(find.st[s]) ->
                                       [ resolved EXCEPT !.state = "returned",
                                                         !.selector = s ]
                                  [] OTHER -> resolved
    /\ UNCHANGED << pc, page, maxSteps, env, stability, twin, scan, chat, histVars, stepVars, resultVars,
                    selectors, retryVars, ops, calls, thrown, loopVars >>

\* throw lastError || new Error("No valid selector found")
FindThrow ==
    /\ pc = "findElement"
    /\ find.state = "loop"
    /\ find.i > Len(find.sels)
    /\ find' = [ find EXCEPT !.state = "thrown",
                             !.error = IF find.lastError # Null THEN find.lastError
                                       ELSE MsgNoValidSelector ]
    /\ UNCHANGED << pc, page, maxSteps, env, stability, twin, scan, chat, histVars, stepVars, resultVars,
                    selectors, retryVars, ops, calls, thrown, loopVars >>

-----------------------------------------------------------------------------
(* Two calls of executeAction, one after the other, on decisions that      *)
(* differ in description, reasoning and confidence only.  The first call   *)
(* leaves the trace of its control states; the second call is run against  *)
(* a browser that behaves as it did for the first.                         *)

\* No pair of calls is being compared.
NoTwin == [ phase |-> 0, trace |-> << >> ]

\* What a call does and decides: its position, the browser operations it
\* has issued, its retry state, its flags and what it has recorded, without
\* the audit texts.
ControlView ==
    [ pc |-> pc, success |-> success, errorMessage |-> errorMessage,
      selectors |-> selectors, url |-> url, attempt |-> attempt,
      lastError |-> lastError, outcomes |-> outcomes, waits |-> waits,
      retryNotes |-> retryNotes, ops |-> ops, thrown |-> thrown,
      goalCompleted |-> goalCompleted, emitted |-> emitted, calls |-> calls,
      stepCount |-> stepCount,
      flags |-> [ i \in DOMAIN executionHistory |-> executionHistory[i].success ],
      lines |-> Len(testSteps) ]

\* The decisions that differ from d in the audit fields only.
AuditVariants(d) ==
    { [ d EXCEPT !.description = ds, !.reasoning = r, !.confidence = c ] :
        ds \in { d.description, << "something else" >> },
        r \in { d.reasoning, << "none given" >> },
        c \in { d.confidence, << "low" >> } } \ { d }

\* Whether the current control state is the last one the trace holds.
Traced == twin.trace # << >> /\ twin.trace[Len(twin.trace)] = ControlView

\* A step of the first call.
TwinFirst ==
    /\ twin.phase = 1
    /\ Traced
    /\ \/ BeginAction
       \/ Switch
       \/ Attempt
       \/ Backoff
       \/ Settle
       \/ Record

\* The control state the first call has reached is added to the trace.
TwinObserve ==
    /\ twin.phase = 1
    /\ ~Traced
    /\ twin' = [ twin EXCEPT !.trace = Append(@, ControlView) ]
    /\ UNCHANGED << mainVars, scan, chat >>

\* The first call has returned and its result is kept: executeAction is
\* called again from the same state, with a variant of the decision.
TwinRerun ==
    /\ twin.phase = 1
    /\ Traced
    /\ pc = "pause"
    /\ decision' \in AuditVariants(decision)
    /\ twin' = [ twin EXCEPT !.phase = 2 ]
    /\ pc' = "execute"
    /\ executionHistory' = << >>
    /\ testSteps' = << >>
    /\ results' = << >>
    /\ goalCompleted' = FALSE
    /\ emitted' = [ t \in EmittedTypes |-> 0 ]
    /\ calls' = [ calls EXCEPT !.execute = 0 ]
    /\ url' = Null
    /\ UNCHANGED << page, maxSteps, env, find, stability, scan, chat, pageSnapshot, resultVars,
                    selectors, retryVars, ops, thrown, stepCount, shown, stepError, report >>

\* A step of the second call that takes it to the control state the first
\* call reached by its step of the same rank.
TwinSecond ==
    /\ twin.phase = 2
    /\ \/ BeginAction
       \/ Switch
       \/ Attempt
       \/ Backoff
       \/ Settle
       \/ Record
    /\ \E n \in 1..(Len(twin.trace) - 1) :
          /\ twin.trace[n] = ControlView
          /\ twin.trace[n + 1] = ControlView'

-----------------------------------------------------------------------------
(* The page snapshotter (the callback getCurrentPageSnapshot evaluates in  *)
(* the page) and its selector ranker.                                      *)
(*                                                                         *)
(* Attribute values, ids, class lists and texts are strings of one-        *)
(* character tokens, so that split, trim, length and the identifier        *)
(* pattern read characters; the literal parts of a selector template are   *)
(* single tokens, and so is a tag name.                                    *)

LetterChars == { "a", "b", "c", "d", "g", "h", "i", "k", "l", "m", "n", "o", "p",
                 "r", "s", "t", "u", "x", "y", "B", "G" }
DigitChars == << "0", "1", "2", "3", "4", "5", "6", "7", "8", "9" >>
WordChars == LetterChars \cup { DigitChars[k] : k \in DOMAIN DigitChars } \cup { "_" }
SpaceChars == { " ", "\n", "\t" }

\* /^[a-zA-Z][\w-]*$/.test(s)
SafePattern(s) ==
    /\ s # << >>
    /\ s[1] \in LetterChars
    /\ \A k \in 2..Len(s) : s[k] \in WordChars \cup { "-" }

\* s.includes(c) for a character c
Includes(s, c) == \E k \in DOMAIN s : s[k] = c

\* String.prototype.split(sep) for a one-character separator, from the
\* part cur already read.
RECURSIVE SplitFrom(_, _, _)
SplitFrom(s, sep, cur) ==
    IF s = << >> THEN << cur >>
    ELSE IF Head(s) = sep THEN << cur >> \o SplitFrom(Tail(s), sep, << >>)
    ELSE SplitFrom(Tail(s), sep, Append(cur, Head(s)))

Split(s, sep) == SplitFrom(s, sep, << >>)

\* Array.prototype.join(sep) of strings
RECURSIVE Join(_, _)
Join(xs, sep) ==
    IF xs = << >> THEN << >>
    ELSE IF Len(xs) = 1 THEN Head(xs)
    ELSE Head(xs) \o << sep >> \o Join(Tail(xs), sep)

\* String.prototype.trim()
RECURSIVE TrimStart(_)
TrimStart(s) ==
    IF s # << >> /\ Head(s) \in SpaceChars THEN TrimStart(Tail(s)) ELSE s

RECURSIVE TrimEnd(_)
TrimEnd(s) ==
    IF s # << >> /\ s[Len(s)] \in SpaceChars THEN TrimEnd(SubSeq(s, 1, Len(s) - 1)) ELSE s

Trim(s) == TrimEnd(TrimStart(s))

\* Array.prototype.slice(0, n) and String.prototype.substring(0, n)
Slice(xs, n) == IF Len(xs) <= n THEN xs ELSE SubSeq(xs, 1, n)

\* `${n}` for a natural number n, in decimal digits.
RECURSIVE Decimal(_)
Decimal(n) ==
    IF n < 10 THEN << DigitChars[n + 1] >>
    ELSE Decimal(n \div 10) \o << DigitChars[(n % 10) + 1] >>

\* The class filter without its tests.
RECURSIVE FilterClassesNonEmpty(_)
FilterClassesNonEmpty(cs) ==
    IF cs = << >> THEN << >>
    ELSE IF Truthy(Head(cs))
         THEN << Head(cs) >> \o FilterClassesNonEmpty(Tail(cs))
    ELSE FilterClassesNonEmpty(Tail(cs))

\* Array.prototype.filter for the class filter of getClassNames.
RECURSIVE FilterClasses(_)
FilterClasses(cs) ==
    IF cs = << >> THEN << >>
    ELSE IF Truthy(Head(cs)) /\ ~Includes(Head(cs), ":") /\ SafePattern(Head(cs))
         THEN << Head(cs) >> \o FilterClasses(Tail(cs))
    ELSE FilterClasses(Tail(cs))

\* getClassNames(element), for an element whose className is a string.
getClassNames(element) ==
    IF ~Truthy(element.className) THEN << >>
    ELSE FilterClasses(Split(element.className, " "))

\* Array.prototype.sort(compare): the stable ordering of xs, given the
\* results compared[j, k] of a consistent comparison of xs[j] with xs[k]
\* (negative: xs[j] first).
StableSort(xs, compared) ==
    LET n == Len(xs)
        rank == [ k \in 1..n |->
                    Cardinality({ j \in 1..n :
                        \/ compared[j, k] < 0
                        \/ compared[j, k] = 0 /\ j < k }) + 1 ]
        at == [ r \in 1..n |-> CHOOSE k \in 1..n : rank[k] = r ]
    IN  [ r \in 1..n |-> xs[at[r]] ]

\* The comparison of the candidates taken the other way round.
ByScoreAscending(a, b) == a.score - b.score

\* (a, b) => b.score - a.score
ByScore(a, b) == b.score - a.score

\* Attribute values and class names the snapshotter tests for.
ClassBtn == << "b", "t", "n" >>
ClassButton == << "b", "u", "t", "t", "o", "n" >>
TypeSubmit == << "s", "u", "b", "m", "i", "t" >>
TypeButton == << "b", "u", "t", "t", "o", "n" >>
RoleLink == << "l", "i", "n", "k" >>
RoleTab == << "t", "a", "b" >>

\* An element of the document: its tag, the position of its parent in
\* document order (0 for the root), its attributes and its layout.
Node(tag, parent) ==
    [ tag |-> tag, parent |-> parent, id |-> Null, className |-> Null,
      testId |-> Null, dataTest |-> Null, ariaLabel |-> Null, name |-> Null,
      role |-> Null, textContent |-> Null, placeholder |-> Null, type |-> Null,
      onclick |-> FALSE, tabindex |-> FALSE, cursor |-> "auto",
      top |-> 0, height |-> 20, rendered |-> TRUE ]

\* The positions of a document's elements, in document order.
Positions(dom) == [ k \in DOMAIN dom |-> k ]

\* Array.from(parent.children): the positions of the children of p.
Children(dom, p) == SelectSeq(Positions(dom), LAMBDA k : dom[k].parent = p)

\* siblings: the children of the parent that have the element's tag.
SameTag(dom, ks, tag) == SelectSeq(ks, LAMBDA k : dom[k].tag = tag)

\* Array.prototype.indexOf
IndexOf(xs, x) ==
    IF \E k \in DOMAIN xs : xs[k] = x
    THEN (CHOOSE k \in DOMAIN xs : xs[k] = x /\ \A j \in 1..(k - 1) : xs[j] # x) - 1
    ELSE -1

Candidate(selector, score) == [ selector |-> selector, score |-> score ]

When(cond, candidate) == IF cond THEN << candidate >> ELSE << >>

\* The id rule ranked below the test-id rules.
IdCandidateBelowTestId(element) ==
    When(Truthy(element.id) /\ SafePattern(element.id),
         Candidate(<< "#" >> \o element.id, 93))

\* The id rule of getOptimalSelector.
IdCandidate(element) ==
    When(Truthy(element.id) /\ SafePattern(element.id),
         Candidate(<< "#" >> \o element.id, 100))

\* parentSelector of the positional rule
ParentSelector(parent) ==
    IF Truthy(parent.id) THEN << "#" >> \o parent.id
    ELSE IF Len(getClassNames(parent)) > 0
         THEN << parent.tag, "." >> \o getClassNames(parent)[1]
    ELSE << parent.tag >>

\* The candidates of getOptimalSelector for the element at position i, in
\* the order they are pushed.
Pushed(dom, i) ==
    LET element == dom[i]
        tagName == element.tag
        text == Trim(element.textContent)
        classNames == getClassNames(element)
        siblings == SameTag(dom, Children(dom, element.parent), element.tag)
    IN  IdCandidate(element)
        \o When(Truthy(element.testId),
             Candidate(<< "[data-testid=\"" >> \o element.testId \o << "\"]" >>, 95))
        \o When(Truthy(element.dataTest),
             Candidate(<< "[data-test=\"" >> \o element.dataTest \o << "\"]" >>, 94))
        \o When(Truthy(element.ariaLabel),
             Candidate(<< "[aria-label=\"" >> \o element.ariaLabel \o << "\"]" >>, 90))
        \o When(Truthy(element.name) /\ tagName = "input",
             Candidate(<< "input[name=\"" >> \o element.name \o << "\"]" >>, 85))
        \o When(Truthy(element.role) /\ Truthy(text) /\ Len(text) < 50,
             Candidate(<< "[role=\"" >> \o element.role \o << "\"]:has-text(\"" >>
                       \o text \o << "\")" >>, 80))
        \o When(Len(classNames) > 0,
             Candidate(<< tagName, "." >> \o Join(Slice(classNames, 2), "."), 70))
        \o When(/\ Truthy(text) /\ Len(text) > 2 /\ Len(text) < 50
                /\ ~Includes(text, "\n") /\ tagName \in { "button", "a" },
             Candidate(<< tagName, ":has-text(\"" >> \o text \o << "\")" >>, 75))
        \o When(element.parent # 0 /\ Len(siblings) > 1,
             Candidate(ParentSelector(dom[element.parent])
                       \o << " > ", tagName, ":nth-child(" >>
                       \o Decimal(IndexOf(siblings, i) + 1) \o << ")" >>, 60))
        \o When(Truthy(element.placeholder),
             Candidate(<< "[placeholder=\"" >> \o element.placeholder \o << "\"]" >>, 65))
        \o When(element.type \in { TypeSubmit, TypeButton },
             Candidate(<< "[type=\"" >> \o element.type \o << "\"]" >>, 50))

\* optimalSelectors[k] || null
SlotOr(xs, k) == IF k <= Len(xs) THEN xs[k].selector ELSE Null

getOptimalSelector(dom, i) ==
    LET pushed == Pushed(dom, i)
        sorted == StableSort(pushed,
                     [ j, k \in DOMAIN pushed |-> ByScore(pushed[j], pushed[k]) ])
        optimalSelectors == Slice(sorted, 3)
    IN  [ primary |-> SlotOr(optimalSelectors, 1),
          fallback |-> SlotOr(optimalSelectors, 2),
          tertiary |-> SlotOr(optimalSelectors, 3) ]

isElementInteractive(element) ==
    \/ element.tag \in { "button", "a", "input", "select", "textarea" }
    \/ element.type \in { TypeSubmit, TypeButton }
    \/ element.role \in { ClassButton, RoleLink, RoleTab,
                          << "m", "e", "n", "u", "i", "t", "e", "m" >> }
    \/ element.onclick
    \/ \E k \in DOMAIN getClassNames(element) :
          getClassNames(element)[k] \in { ClassBtn, ClassButton }
    \/ element.cursor = "pointer"

\* isVisible of processElement, in a window of the given height.
IsVisible(element, innerHeight) ==
    /\ element.height > 0
    /\ element.top < innerHeight
    /\ element.top + element.height > 0
    /\ element.rendered

\* processElement(element) for a visible element: the descriptor's fields
\* that the executor or the ordering of the snapshot reads.  node is the
\* element the descriptor describes.
processElement(dom, i, innerHeight) ==
    LET element == dom[i]
        sel == getOptimalSelector(dom, i)
    IN  [ node |-> i,
          tag |-> element.tag,
          text |-> Slice(Trim(element.textContent), 100),
          id |-> element.id,
          className |-> Join(getClassNames(element), " "),
          dataTestId |-> element.testId,
          selector |-> sel.primary,
          fallbackSelector |-> sel.fallback,
          tertiarySelector |-> sel.tertiary,
          y |-> element.top,
          inViewport |-> element.top >= 0 /\ element.top + element.height <= innerHeight,
          isInteractable |-> isElementInteractive(element),
          index |-> NaN ]

\* document.querySelectorAll of the interactive selector list: whether the
\* element matches it.
MatchesInteractiveQuery(element) ==
    \/ element.tag \in { "button", "a", "input", "select", "textarea" }
    \/ element.onclick
    \/ element.role \in { ClassButton, RoleLink }
    \/ element.tabindex
    \/ \E k \in DOMAIN Split(element.className, " ") :
          Split(element.className, " ")[k] \in { ClassBtn, ClassButton }
    \/ Truthy(element.testId)
    \/ element.type \in { TypeSubmit, TypeButton }

\* interactiveElements, as positions in document order
InteractiveElements(dom) ==
    SelectSeq(Positions(dom), LAMBDA k : MatchesInteractiveQuery(dom[k]))

\* snapshot.elements.length >= 100 ends the pass over all elements;
\* slice(0, 75) keeps the snapshot's elements.
CollectLimit == 100
SnapshotLimit == 75

\* The comparison without its first two tests.
CompareInViewportFirst(a, b) ==
    IF a.inViewport /\ ~b.inViewport THEN -1
    ELSE IF ~a.inViewport /\ b.inViewport THEN 1
    ELSE a.y - b.y

\* The comparison of the snapshot's sort.
CompareElements(a, b) ==
    IF a.isInteractable /\ ~b.isInteractable THEN -1
    ELSE IF ~a.isInteractable /\ b.isInteractable THEN 1
    ELSE IF a.inViewport /\ ~b.inViewport THEN -1
    ELSE IF ~a.inViewport /\ b.inViewport THEN 1
    ELSE a.y - b.y

\* forEach((el, index) => { el.index = index })
Indexed(xs) == [ k \in DOMAIN xs |-> [ xs[k] EXCEPT !.index = k - 1 ] ]

NoScan == [ phase |-> "none" ]

\* The callback at its first statement, in a document and a window.
ScanOf(dom, innerHeight) ==
    [ phase |-> "query", dom |-> dom, innerHeight |-> innerHeight, at |-> 1,
      processedElements |-> {}, elements |-> << >> ]

\* One element of interactiveElements.forEach.
QueryVisit ==
    /\ scan.phase = "query"
    /\ LET list == InteractiveElements(scan.dom) IN
       IF scan.at > Len(list)
       THEN scan' = [ scan EXCEPT !.phase = "all", !.at = 1 ]
       ELSE LET i == list[scan.at] IN
            scan' = [ scan EXCEPT
                        !.at = @ + 1,
                        !.processedElements = @ \cup { i },
                        !.elements =
                            IF i \in scan.processedElements THEN @
                            ELSE IF IsVisible(scan.dom[i], scan.innerHeight)
                                 THEN Append(@, processElement(scan.dom, i, scan.innerHeight))
                            ELSE @ ]
    /\ UNCHANGED << mainVars, twin, chat >>

\* One element of allElements.forEach.
AllVisit ==
    /\ scan.phase = "all"
    /\ IF scan.at > Len(scan.dom)
       THEN scan' = [ scan EXCEPT !.phase = "sort" ]
       ELSE LET i == scan.at IN
            scan' = [ scan EXCEPT
                        !.at = @ + 1,
                        !.elements =
                            IF i \in scan.processedElements \/ Len(@) >= CollectLimit THEN @
                            ELSE IF /\ IsVisible(scan.dom[i], scan.innerHeight)
                                    /\ Len(processElement(scan.dom, i, scan.innerHeight).text) > 0
                                 THEN Append(@, processElement(scan.dom, i, scan.innerHeight))
                            ELSE @ ]
    /\ UNCHANGED << mainVars, twin, chat >>

\* The sort, the slice and the numbering that end the callback.
SortSliceIndex ==
    /\ scan.phase = "sort"
    /\ LET sorted == StableSort(scan.elements,
                         [ j, k \in DOMAIN scan.elements |->
                             CompareElements(scan.elements[j], scan.elements[k]) ])
       IN  scan' = [ scan EXCEPT
                       !.phase = "done",
                       !.elements = Indexed(Slice(sorted, SnapshotLimit)) ]
    /\ UNCHANGED << mainVars, twin, chat >>

-----------------------------------------------------------------------------
(* The command server: AIActionProcessor and the WebSocket sessions.       *)
(*                                                                         *)
(* A chat message is a sequence of words; includes(k) for a keyword k and  *)
(* the regular expressions of fallbackParser read whole words.  An action  *)
(* kind is a string, "" when the reply has none.                           *)

\* String.prototype.toLowerCase() of a word
Lower(w) == IF w = "Click" THEN "click" ELSE w

\* lowerMessage.includes(k) for a one-word keyword
HasWord(message, k) == \E j \in DOMAIN message : Lower(message[j]) = k

\* lowerMessage.includes("k1 k2")
HasPhrase(message, k1, k2) ==
    \E j \in 1..(Len(message) - 1) : Lower(message[j]) = k1 /\ Lower(message[j + 1]) = k2

\* The words of the message after the first occurrence of the keyword:
\* the group (.+) of /keyword\s+(.+)/i, empty when the pattern has no match.
After(message, k) ==
    IF HasWord(message, k)
    THEN LET j == CHOOSE j \in DOMAIN message :
                    /\ Lower(message[j]) = k
                    /\ \A i \in 1..(j - 1) : Lower(message[i]) # k
         IN  SubSeq(message, j + 1, Len(message))
    ELSE << >>

\* The words that the pattern [a-zA-Z0-9.-]+\.[a-zA-Z]{2,} matches, with
\* the part of each that the pattern captures.
DomainOf(w) ==
    CASE w = "google.com" -> << "google.com" >>
      [] w = "http://x.org" -> << "x.org" >>
      [] OTHER -> << >>

\* message.match(pattern) for the host patterns: the capture of the
\* leftmost word that has one.
FirstDomain(message) ==
    IF \E j \in DOMAIN message : DomainOf(message[j]) # << >>
    THEN DomainOf(message[CHOOSE j \in DOMAIN message :
                    /\ DomainOf(message[j]) # << >>
                    /\ \A i \in 1..(j - 1) : DomainOf(message[i]) = << >>])
    ELSE << >>

\* if (!url.startsWith("http")) url = `https://${url}`
WithScheme(u) == IF StartsWithHttp(u) THEN u ELSE << "https://" >> \o u

\* An action object: the fields a reply or the fallback parser may set.
Command(action) ==
    [ action |-> action, url |-> Null, selector |-> Null, text |-> Null,
      query |-> Null, direction |-> Null, key |-> Null, message |-> Null ]

DefaultClickSelector == << "button, a, [role=\"button\"]" >>
FallbackClickSelector == << "button, a, [role='button']" >>
DefaultTypeSelector == << "input, textarea" >>

\* The last return of fallbackParser, turned into a wait.
UnmatchedAsWait(message) ==
    [ Command("wait") EXCEPT !.selector = << "*" >> ]

\* return { action: "unknown", message, originalInput: message }
Unmatched(message) == [ Command("unknown") EXCEPT !.message = message ]

\* The group of the first of the type patterns that matches.
TypedText(message) ==
    LET entered == After(message, "enter") IN
    IF After(message, "type") # << >> THEN After(message, "type")
    ELSE IF Len(entered) > 1 /\ entered[1] = "text" THEN Tail(entered)
    ELSE After(message, "input")

\* The group of the first of the search patterns that matches.
SearchQuery(message) ==
    LET rest == After(message, "search") IN
    IF Len(rest) > 1 /\ rest[1] = "for" THEN Tail(rest) ELSE rest

\* The group of /click(?:\s+on)?\s+(.+)/i
ClickText(message) ==
    LET rest == After(message, "click") IN
    IF rest = << >> THEN << "clickable", "element" >>
    ELSE IF Len(rest) > 1 /\ rest[1] = "on" THEN Tail(rest)
    ELSE rest

fallbackParser(message) ==
    IF \/ HasPhrase(message, "generate", "test") \/ HasPhrase(message, "create", "test")
       \/ HasPhrase(message, "test", "case") \/ HasPhrase(message, "test", "code")
    THEN Command("generate_test")
    ELSE IF /\ \/ HasWord(message, "navigate") \/ HasPhrase(message, "go", "to")
               \/ HasWord(message, "open") \/ HasWord(message, "visit")
            /\ FirstDomain(message) # << >>
    THEN [ Command("navigate") EXCEPT !.url = WithScheme(FirstDomain(message)) ]
    ELSE IF HasWord(message, "click")
    THEN [ Command("click") EXCEPT !.selector = FallbackClickSelector,
                                   !.text = ClickText(message) ]
    ELSE IF /\ \/ HasWord(message, "type") \/ HasPhrase(message, "enter", "text")
               \/ HasWord(message, "input")
            /\ TypedText(message) # << >>
    THEN [ Command("type") EXCEPT !.selector = DefaultTypeSelector,
                                  !.text = TypedText(message) ]
    ELSE IF HasWord(message, "search") /\ SearchQuery(message) # << >>
    THEN [ Command("search") EXCEPT !.query = SearchQuery(message) ]
    ELSE IF HasWord(message, "scroll")
    THEN [ Command("scroll") EXCEPT !.direction =
             IF HasWord(message, "up") THEN << "up" >>
             ELSE IF HasWord(message, "down") THEN << "down" >>
             ELSE IF HasWord(message, "left") THEN << "left" >>
             ELSE IF HasWord(message, "right") THEN << "right" >>
             ELSE << "down" >> ]
    ELSE IF \/ HasWord(message, "screenshot") \/ HasWord(message, "capture")
            \/ HasPhrase(message, "take", "picture")
    THEN Command("screenshot")
    ELSE IF HasWord(message, "enter")
    THEN [ Command("press_key") EXCEPT !.key = << "Enter" >> ]
    ELSE IF HasWord(message, "wait")
    THEN [ Command("wait") EXCEPT !.selector = << "*" >> ]
    ELSE IF FirstDomain(message) # << >>
    THEN [ Command("navigate") EXCEPT !.url = WithScheme(FirstDomain(message)) ]
    ELSE Unmatched(message)

validActions ==
    { "navigate", "click", "type", "search", "scroll", "wait", "screenshot",
      "press_key", "generate_test" }

Directions == { << "up" >>, << "down" >>, << "left" >>, << "right" >> }

\* validateAction that looks at the action kind only.
ThrowsForKindOnly(actionObj) ==
    \/ actionObj.action = ""
    \/ actionObj.action \notin validActions

\* Whether validateAction throws for the object.
Throws(actionObj) ==
    \/ actionObj.action = ""
    \/ actionObj.action \notin validActions
    \/ actionObj.action = "navigate" /\ ~Truthy(actionObj.url)
    \/ actionObj.action = "type" /\ ~Truthy(actionObj.text)
    \/ actionObj.action = "search" /\ ~Truthy(actionObj.query)

\* The object validateAction returns when it does not throw.
validateAction(actionObj) ==
    CASE actionObj.action = "navigate" ->
            [ actionObj EXCEPT !.url = WithScheme(@) ]
      [] actionObj.action = "scroll" ->
            [ actionObj EXCEPT !.direction = IF @ \in Directions THEN @ ELSE << "down" >> ]
      [] actionObj.action = "click" ->
            [ actionObj EXCEPT !.selector = IF Truthy(@) THEN @ ELSE DefaultClickSelector ]
      [] actionObj.action = "type" ->
            [ actionObj EXCEPT !.selector = IF Truthy(@) THEN @ ELSE DefaultTypeSelector ]
      [] actionObj.action = "wait" ->
            [ actionObj EXCEPT !.selector = IF Truthy(@) THEN @ ELSE << "*" >> ]
      [] actionObj.action = "press_key" ->
            [ actionObj EXCEPT !.key = IF Truthy(@) THEN @ ELSE << "Enter" >> ]
      [] OTHER -> actionObj

\* What the oracle call of processCommand comes to: the request fails, the
\* text is not JSON, or it parses to null or to an object.
NoReply == [ kind |-> "none", obj |-> Command("") ]
Reply(kind, obj) == [ kind |-> kind, obj |-> obj ]

\* processCommand(message, ...), given what the oracle call came to.
processCommand(message, reply) ==
    IF reply.kind = "object" /\ ~Throws(reply.obj)
    THEN validateAction(reply.obj)
    ELSE fallbackParser(message)

\* The tools a handler of executeAction calls, in order, on a session that
\* is or is not yet active and has or has not a snapshot; "selector" is the
\* oracle call of findBestSelector.
ToolsOf(action, isActive, hasSnapshot) ==
    CASE action = "navigate" ->
            (IF isActive THEN << >> ELSE << "browser_initialize" >>)
            \o << "page_navigate", "page_get_snapshot" >>
      [] action = "click" ->
            (IF hasSnapshot THEN << "selector" >> ELSE << >>)
            \o << "element_click", "page_get_snapshot" >>
      [] action = "type" ->
            (IF hasSnapshot THEN << "selector" >> ELSE << >>) \o << "element_type" >>
      [] action = "search" -> << "element_type", "keyboard_press", "page_get_snapshot" >>
      [] action = "scroll" -> << "page_scroll" >>
      [] action = "wait" -> << "element_wait" >>
      [] action = "screenshot" -> << "page_screenshot" >>
      [] action = "press_key" -> << "keyboard_press", "page_get_snapshot" >>
      [] OTHER -> << >>

\* The tools whose return is followed by session.testSteps.push.
Recorded ==
    { "page_navigate", "element_click", "element_type", "keyboard_press",
      "page_scroll", "element_wait", "page_screenshot" }

BrowserTools == Recorded \cup { "browser_initialize", "page_get_snapshot" }

\* The handlers that start with the test of session.isActive.
NeedsActiveButScreenshot == { "click", "type", "search", "scroll", "wait", "press_key" }

NeedsActive ==
    { "click", "type", "search", "scroll", "wait", "press_key", "screenshot" }

\* activeSessions.set(sessionId, { ws, ..., isActive: false, ... }), with the
\* number of pages the session has loaded and the number of the page its
\* snapshot was taken of.
NewSession(ws) ==
    [ ws |-> ws, isActive |-> FALSE, currentUrl |-> Null, pageSnapshot |-> FALSE,
      testSteps |-> << >>, cleanups |-> 0, navigations |-> 0, snapshotOf |-> 0 ]

\* A message handler that has not been started.
NoHandler ==
    [ pc |-> "idle", conn |-> 0, session |-> 0, message |-> << >>, reply |-> NoReply,
      command |-> Command(""), queue |-> << >>, tools |-> << >>, steps |-> 0,
      errors |-> 0, decisions |-> 0, stale |-> FALSE ]

NoChat == [ scope |-> "none" ]

\* The sizes of a run of the server: connections, messages and clock ticks.
ConnIds == 1..MaxConnections
HandlerIds == 1..MaxMessages
Times == 0..MaxClock

\* WebSocket.OPEN
IsOpen(ws) == chat.conns[ws].state = "open"

\* safeWebSocketSend(ws, { type: "error", ... }) by handler h: the handler
\* after the call.
SendError(h, ws) == IF IsOpen(ws) THEN [ h EXCEPT !.errors = @ + 1 ] ELSE h

\* The server with no connection yet.
ChatOf(scope, apiKey) ==
    [ scope |-> scope,
      apiKey |-> apiKey,
      now |-> 0,
      conns |-> [ c \in ConnIds |-> [ state |-> "none", sessionId |-> 0 ] ],
      activeConnections |-> {},
      activeSessions |-> [ t \in Times |-> 0 ],
      sessions |-> [ c \in ConnIds |-> NewSession(0) ],
      handlers |-> [ h \in HandlerIds |-> NoHandler ] ]

\* Date.now() moves on.
Tick ==
    /\ chat.scope = "sessions"
    /\ chat.now < MaxClock
    /\ chat' = [ chat EXCEPT !.now = @ + 1 ]
    /\ UNCHANGED << mainVars, twin, scan >>

\* wss.on("connection"): the session id is the time of the connection.
Connect(ws) ==
    /\ chat.scope = "sessions"
    /\ chat.conns[ws].state = "none"
    /\ LET sessionId == chat.now IN
       IF ~chat.apiKey
       THEN chat' = [ chat EXCEPT
                        !.activeConnections = @ \cup { ws },
                        !.conns[ws] = [ state |-> "refused", sessionId |-> sessionId ] ]
       ELSE chat' = [ chat EXCEPT
                        !.activeConnections = @ \cup { ws },
                        !.conns[ws] = [ state |-> "open", sessionId |-> sessionId ],
                        !.activeSessions[sessionId] = ws,
                        !.sessions[ws] = NewSession(ws) ]
    /\ UNCHANGED << mainVars, twin, scan >>

\* The words of the chat messages, and the messages of each kind of run.
Vocabulary(scope) ==
    IF scope = "commands"
    THEN { "visit", "google.com", "Click", "on", "type", "hello", "search", "for",
           "scroll", "up", "enter", "wait", "test", "dance" }
    ELSE { "visit", "google.com", "dance" }

Messages(scope) ==
    IF scope = "commands"
    THEN UNION { [ 1..n -> Vocabulary(scope) ] : n \in 1..MaxWords }
    ELSE { << "visit", "google.com" >>, << "dance" >> }

\* The frames a client may send: a chat message, a frame that is not JSON
\* and a JSON frame without a message string.
Frames(scope) ==
    { [ kind |-> "chat", message |-> m ] : m \in Messages(scope) }
    \cup { [ kind |-> "notJSON", message |-> << >> ],
           [ kind |-> "noMessage", message |-> << >> ] }

\* What the oracle may answer.
OracleReplies(scope) ==
    IF scope = "commands"
    THEN { Reply("failed", Command("")), Reply("notJSON", Command("")),
           Reply("null", Command("")),
           Reply("object", Command("")),
           Reply("object", Command("unknown")),
           Reply("object", Command("dance")),
           Reply("object", Command("navigate")),
           Reply("object", [ Command("navigate") EXCEPT !.url = << "google.com" >> ]),
           Reply("object", [ Command("navigate") EXCEPT !.url = << "https://", "x.org" >> ]),
           Reply("object", Command("click")),
           Reply("object", [ Command("click") EXCEPT !.selector = << "#go" >> ]),
           Reply("object", Command("type")),
           Reply("object", [ Command("type") EXCEPT !.text = << "hello" >> ]),
           Reply("object", Command("search")),
           Reply("object", [ Command("search") EXCEPT !.query = << "cats" >> ]),
           Reply("object", [ Command("scroll") EXCEPT !.direction = << "sideways" >> ]),
           Reply("object", Command("wait")),
           Reply("object", Command("screenshot")),
           Reply("object", Command("press_key")),
           Reply("object", Command("generate_test")) }
    ELSE IF scope = "sequence"
    THEN { Reply("failed", Command("")),
           Reply("object", [ Command("navigate") EXCEPT !.url = << "google.com" >> ]),
           Reply("object", [ Command("click") EXCEPT !.selector = << "#go" >> ]),
           Reply("object", [ Command("type") EXCEPT !.text = << "hello" >> ]),
           Reply("object", [ Command("search") EXCEPT !.query = << "cats" >> ]),
           Reply("object", Command("scroll")),
           Reply("object", Command("wait")),
           Reply("object", Command("screenshot")),
           Reply("object", Command("press_key")) }
    ELSE { Reply("failed", Command("")),
           Reply("object", [ Command("navigate") EXCEPT !.url = << "google.com" >> ]) }

\* ws.on("message") up to the first await of handleChatMessage: the frame
\* is parsed, the session looked up and the message checked.
Message(ws, h) ==
    /\ chat.scope # "none"
    /\ IsOpen(ws)
    /\ chat.handlers[h].pc = "idle"
    /\ \A g \in 1..(h - 1) : chat.handlers[g].pc # "idle"
    /\ chat.scope = "commands" => h = 1
    /\ chat.scope = "sequence" => \A g \in 1..(h - 1) : chat.handlers[g].pc = "done"
    /\ \E frame \in Frames(chat.scope) :
       LET session == chat.activeSessions[chat.conns[ws].sessionId]
           started == [ NoHandler EXCEPT !.conn = ws, !.session = session,
                                         !.message = frame.message ]
       IN  chat' = [ chat EXCEPT !.handlers[h] =
             IF frame.kind = "notJSON"
             THEN [ SendError(started, ws) EXCEPT !.pc = "done", !.session = 0 ]
             ELSE IF session = 0
             THEN [ started EXCEPT !.pc = "done" ]
             ELSE IF frame.kind = "noMessage"
             THEN [ SendError(started, chat.sessions[session].ws) EXCEPT !.pc = "done" ]
             ELSE [ started EXCEPT !.pc = "oracle" ] ]
    /\ UNCHANGED << mainVars, twin, scan >>

\* The handlers that look their target up in session.pageSnapshot.elements.
ReadsSnapshot == { "click", "type", "search" }

\* Whether the handler of the action reads a snapshot of a page that the
\* session has since navigated away from.
ReadsStale(action, session) ==
    /\ action \in ReadsSnapshot
    /\ session.pageSnapshot
    /\ session.snapshotOf < session.navigations

\* executeAction(session, actionCommand, ...) up to the first await of its
\* handler: the handler after the switch, given the session.
Dispatch(h, session) ==
    LET action == h.command.action
        ws == session.ws
    IN  IF action \notin validActions
        THEN [ SendError(h, ws) EXCEPT !.pc = "done" ]
        ELSE IF action \in NeedsActive /\ ~session.isActive
        THEN [ SendError(h, ws) EXCEPT !.pc = "done" ]
        ELSE IF action = "generate_test"
        THEN [ (IF session.testSteps = << >> THEN SendError(h, ws) ELSE h)
                 EXCEPT !.pc = "done" ]
        ELSE [ h EXCEPT !.pc = "tool",
                        !.queue = ToolsOf(action, session.isActive, session.pageSnapshot),
                        !.stale = ReadsStale(action, session) ]

\* handleChatMessage after processCommand returns: an unknown action is
\* answered with an error, any other is announced and executed.
AfterCommand(h, session) ==
    IF h.command.action = "unknown"
    THEN [ SendError(h, session.ws) EXCEPT !.pc = "done" ]
    ELSE Dispatch([ h EXCEPT !.decisions = @ + 1 ], session)

\* The oracle call of processCommand settles, and the handler runs on to
\* its next await.
OracleReply(h) ==
    /\ chat.scope # "none"
    /\ chat.handlers[h].pc = "oracle"
    /\ \E reply \in OracleReplies(chat.scope) :
       LET old == chat.handlers[h]
           decided == [ old EXCEPT !.reply = reply,
                                   !.command = processCommand(old.message, reply) ]
       IN  chat' = [ chat EXCEPT
                       !.handlers[h] = AfterCommand(decided, chat.sessions[old.session]) ]
    /\ UNCHANGED << mainVars, twin, scan >>

\* searchBox of handleSearch when the snapshot has no search input.
DefaultSearchBox == << "input[name=\"q\"], input[type=\"search\"], textarea[name=\"q\"]" >>

\* scrollAmount of handleScroll, as text.
ScrollAmount(direction) ==
    IF direction = << "down" >> THEN << "300" >>
    ELSE IF direction = << "up" >> THEN << "-300" >>
    ELSE << "0" >>

\* The line pushed to session.testSteps after a tool returns.
StepLine(tool, command) ==
    CASE tool = "page_navigate" -> << "await page.goto('" >> \o command.url \o << "');" >>
      [] tool = "element_click" -> << "await page.click('" >> \o command.selector \o << "');" >>
      [] tool = "element_type" /\ command.action = "search" ->
            << "await page.fill('" >> \o DefaultSearchBox \o << "', '" >>
            \o command.query \o << "');" >>
      [] tool = "element_type" /\ command.action # "search" ->
            << "await page.fill('" >> \o command.selector \o << "', '" >>
            \o command.text \o << "');" >>
      [] tool = "keyboard_press" ->
            << "await page.keyboard.press('" >>
            \o (IF command.action = "search" THEN << "Enter" >> ELSE command.key)
            \o << "');" >>
      [] tool = "page_scroll" ->
            << "await page.evaluate(() => window.scrollBy(0, " >>
            \o ScrollAmount(command.direction) \o << "));" >>
      [] tool = "element_wait" ->
            << "await page.waitForSelector('" >> \o command.selector \o << "');" >>
      [] OTHER -> << "await page.screenshot({ path: 'screenshot.png' });" >>

\* An awaited call of a handler settles: a browser tool returns or fails,
\* or findBestSelector returns.
ToolReturn(h, ok) ==
    /\ chat.scope # "none"
    /\ chat.handlers[h].pc = "tool"
    /\ LET old == chat.handlers[h]
           tool == Head(old.queue)
           s == old.session
           session == chat.sessions[s]
           called == [ old EXCEPT !.queue = Tail(@),
                                  !.tools = IF tool \in BrowserTools THEN Append(@, tool) ELSE @ ]
           rest == IF Tail(old.queue) = << >> THEN "done" ELSE "tool"
       IN  IF tool = "selector"
           THEN /\ ok
                /\ chat' = [ chat EXCEPT !.handlers[h] = called ]
           ELSE IF ~ok
           THEN chat' = [ chat EXCEPT !.handlers[h] =
                    IF tool = "page_get_snapshot"
                    THEN [ called EXCEPT !.pc = "done", !.queue = << >> ]
                    ELSE [ SendError(called, session.ws) EXCEPT !.pc = "done", !.queue = << >> ] ]
           ELSE chat' = [ chat EXCEPT
                    !.handlers[h] =
                        [ called EXCEPT !.pc = rest,
                                        !.steps = IF tool \in Recorded THEN @ + 1 ELSE @ ],
                    !.sessions[s] =
                        [ @ EXCEPT
                            !.isActive = IF tool = "browser_initialize" THEN TRUE ELSE @,
                            !.currentUrl = IF tool = "page_navigate" THEN old.command.url ELSE @,
                            !.pageSnapshot = IF tool = "page_get_snapshot" THEN TRUE ELSE @,
                            !.navigations = IF tool = "page_navigate" THEN @ + 1 ELSE @,
                            !.snapshotOf = IF tool = "page_get_snapshot"
                                           THEN session.navigations ELSE @,
                            !.testSteps = IF tool \in Recorded
                                          THEN Append(@, StepLine(tool, old.command)) ELSE @ ] ]
    /\ UNCHANGED << mainVars, twin, scan >>

\* cleanup(sessionId): the server after the call. session.handler.cleanup()
\* is counted on the session record it is called for.
Cleanup(server, sessionId) ==
    LET session == server.activeSessions[sessionId] IN
    IF session = 0
    THEN server
    ELSE [ server EXCEPT
             !.activeConnections = @ \ { server.sessions[session].ws },
             !.sessions[session].cleanups = @ + 1,
             !.activeSessions[sessionId] = 0 ]

\* ws.on("error"): the socket fails; its close event is still to come.
Error(ws) ==
    /\ chat.scope = "sessions"
    /\ IsOpen(ws)
    /\ chat' = [ Cleanup(chat, chat.conns[ws].sessionId) EXCEPT
                   !.conns[ws].state = "errored" ]
    /\ UNCHANGED << mainVars, twin, scan >>

\* ws.on("close"), of a socket that is open or has failed.
Close(ws) ==
    /\ chat.scope = "sessions"
    /\ chat.conns[ws].state \in { "open", "errored" }
    /\ chat' = [ Cleanup(chat, chat.conns[ws].sessionId) EXCEPT
                   !.conns[ws].state = "closed" ]
    /\ UNCHANGED << mainVars, twin, scan >>

-----------------------------------------------------------------------------
(* waitForStability, one await, timer or mutation at a time, with the       *)
(* clock in milliseconds.                                                   *)

\* this.page.waitForTimeout(3000) of the race with waitForLoadState.
RaceTimeout == 3000

\* The delay of the timer each mutation re-arms.
QuietWindow == 1000

\* if (mutationCount < 5)
MutationThreshold == 5

\* The delay of the timer set when the observer is installed.
HardCeiling == 5000

\* this.page.waitForTimeout(500) after the in-page wait.
SettleDelay == 500

\* The clock moves in steps of the shortest delay, to the end of the
\* longest call and a little further.
ClockStep == SettleDelay
Horizon == RaceTimeout + HardCeiling + SettleDelay + QuietWindow

NoStability == [ phase |-> "none" ]

\* The call when it starts.
StabilityOf(complete) ==
    [ phase |-> "race", now |-> 0, complete |-> complete, started |-> 0,
      mutationCount |-> 0, timer |-> FALSE, timeoutAt |-> 0, observing |-> FALSE,
      resolved |-> FALSE, waited |-> 0, settleAt |-> 0, mutated |-> FALSE,
      quiet |-> FALSE, warned |-> FALSE, outcome |-> "pending" ]

\* catch (error) { console.warn(...) }: the call returns.
Warned(s) == [ s EXCEPT !.phase = "done", !.warned = TRUE, !.observing = FALSE,
                        !.timer = FALSE, !.outcome = "returned" ]

\* resolve() of the in-page promise, and the await of waitForTimeout(500).
Resolved(s) ==
    [ s EXCEPT !.phase = "settle", !.resolved = TRUE, !.waited = s.now - s.started,
               !.settleAt = s.now + SettleDelay ]

\* Whether the timer of the hard ceiling is due.
CeilingNeverDue(elapsed) == FALSE

CeilingDue(elapsed) == elapsed >= HardCeiling

\* Whether the timer of the quiet window is due.
QuietDue(s) == s.timer /\ s.now >= s.timeoutAt

\* Promise.race([waitForLoadState, waitForTimeout(3000)]) settles.
RaceSettles(loaded) ==
    /\ stability.phase = "race"
    /\ loaded \/ stability.now >= RaceTimeout
    /\ stability' = [ stability EXCEPT !.phase = "evaluate" ]
    /\ UNCHANGED << pc, page, maxSteps, env, find, twin, scan, chat, histVars, stepVars,
                    resultVars, selectors, retryVars, ops, calls, thrown, stepCount,
                    goalCompleted, emitted, shown, stepError, report >>

\* The callback of page.evaluate up to its return: a complete document
\* resolves at once, any other gets the observer and the ceiling timer.
Evaluate ==
    /\ stability.phase = "evaluate"
    /\ stability' =
         IF stability.complete
         THEN Resolved([ stability EXCEPT !.started = stability.now ])
         ELSE [ stability EXCEPT !.phase = "observe", !.started = stability.now,
                                 !.observing = TRUE ]
    /\ UNCHANGED << pc, page, maxSteps, env, find, twin, scan, chat, histVars, stepVars,
                    resultVars, selectors, retryVars, ops, calls, thrown, stepCount,
                    goalCompleted, emitted, shown, stepError, report >>

\* The callback of the MutationObserver.
Mutation ==
    /\ stability.phase = "observe"
    /\ stability.observing
    /\ ~QuietDue(stability)
    /\ ~CeilingDue(stability.now - stability.started)
    /\ stability' =
         [ stability EXCEPT
             !.mutationCount = IF @ < MutationThreshold THEN @ + 1 ELSE @,
             !.timer = TRUE,
             !.timeoutAt = stability.now + QuietWindow,
             !.mutated = TRUE ]
    /\ UNCHANGED << pc, page, maxSteps, env, find, twin, scan, chat, histVars, stepVars,
                    resultVars, selectors, retryVars, ops, calls, thrown, stepCount,
                    goalCompleted, emitted, shown, stepError, report >>

\* The timer of the quiet window fires.
QuietTimeout ==
    /\ stability.phase = "observe"
    /\ QuietDue(stability)
    /\ LET fired == [ stability EXCEPT !.timer = FALSE, !.mutationCount = 0 ] IN
       stability' =
         IF stability.mutationCount < MutationThreshold
         THEN Resolved([ fired EXCEPT !.observing = FALSE, !.quiet = TRUE ])
         ELSE fired
    /\ UNCHANGED << pc, page, maxSteps, env, find, twin, scan, chat, histVars, stepVars,
                    resultVars, selectors, retryVars, ops, calls, thrown, stepCount,
                    goalCompleted, emitted, shown, stepError, report >>

\* The timer of the hard ceiling fires.
Ceiling ==
    /\ stability.phase = "observe"
    /\ CeilingDue(stability.now - stability.started)
    /\ stability' = Resolved([ stability EXCEPT !.observing = FALSE ])
    /\ UNCHANGED << pc, page, maxSteps, env, find, twin, scan, chat, histVars, stepVars,
                    resultVars, selectors, retryVars, ops, calls, thrown, stepCount,
                    goalCompleted, emitted, shown, stepError, report >>

\* this.page.waitForTimeout(500) resolves and waitForStability returns.
SettleReturns ==
    /\ stability.phase = "settle"
    /\ stability.now >= stability.settleAt
    /\ stability' = [ stability EXCEPT !.phase = "done", !.timer = FALSE,
                                       !.outcome = "returned" ]
    /\ UNCHANGED << pc, page, maxSteps, env, find, twin, scan, chat, histVars, stepVars,
                    resultVars, selectors, retryVars, ops, calls, thrown, stepCount,
                    goalCompleted, emitted, shown, stepError, report >>

\* An awaited call of the page rejects: the page is null or closed, the
\* document has no body, or a navigation destroys the context.
StabilityRejects ==
    /\ stability.phase \in { "race", "evaluate", "observe", "settle" }
    /\ stability' = Warned(stability)
    /\ UNCHANGED << pc, page, maxSteps, env, find, twin, scan, chat, histVars, stepVars,
                    resultVars, selectors, retryVars, ops, calls, thrown, stepCount,
                    goalCompleted, emitted, shown, stepError, report >>

\* Time passes while no timer of the call is due.
StabilityTick ==
    /\ stability.phase \in { "race", "observe", "settle" }
    /\ stability.now < Horizon
    /\ stability.phase = "race" => stability.now < RaceTimeout
    /\ stability.phase = "observe" =>
          ~QuietDue(stability) /\ ~CeilingDue(stability.now - stability.started)
    /\ stability.phase = "settle" => stability.now < stability.settleAt
    /\ stability' = [ stability EXCEPT !.now = @ + ClockStep ]
    /\ UNCHANGED << pc, page, maxSteps, env, find, twin, scan, chat, histVars, stepVars,
                    resultVars, selectors, retryVars, ops, calls, thrown, stepCount,
                    goalCompleted, emitted, shown, stepError, report >>

-----------------------------------------------------------------------------
(* generateTestCode, called more than once on the recorded steps.          *)

\* testName = "AI Generated Test"
DefaultTestName == << "AI Generated Test" >>

TestNames == { DefaultTestName, Goal }

\* The lines executeAction may have pushed to this.testSteps.
ReplayLines ==
    { << "    " >> \o CodeClick(<< "#go" >>), << "    " >> \o CodePress(<< "Enter" >>) }

\* this.testSteps after this.testSteps.join("\n") has been evaluated.
AfterJoinEmptied(steps) == << >>

AfterJoin(steps) == steps

\* A call of generateTestCode(testName): what it was given, what it
\* returned and what it left in this.testSteps are kept.
GenerateCall(testName) ==
    /\ pc = "replay"
    /\ twin.phase < MaxGenerations
    /\ twin' = [ twin EXCEPT
                   !.phase = @ + 1,
                   !.trace = Append(@, [ testName |-> testName,
                                         steps |-> testSteps,
                                         testCode |-> GenerateTestCode(testName, testSteps),
                                         left |-> AfterJoin(testSteps) ]) ]
    /\ testSteps' = AfterJoin(testSteps)
    /\ UNCHANGED << pc, page, maxSteps, env, find, stability, scan, chat, executionHistory,
                    results, stepVars, resultVars, selectors, retryVars, ops, calls,
                    thrown, stepCount, goalCompleted, emitted, shown, stepError, report >>

\* this.testSteps.push(...) between two calls.
PushStep(line) ==
    /\ pc = "replay"
    /\ Len(testSteps) < MaxReplaySteps
    /\ testSteps' = Append(testSteps, line)
    /\ UNCHANGED << pc, page, maxSteps, env, find, stability, twin, scan, chat,
                    executionHistory, results, stepVars, resultVars, selectors, retryVars,
                    ops, calls, thrown, stepCount, goalCompleted, emitted, shown,
                    stepError, report >>

-----------------------------------------------------------------------------
(* Specifications.                                                         *)

\* The fields of a generator as the constructor sets them, and the locals
\* of its methods before any of them runs.
Fresh ==
    /\ goalCompleted = FALSE
    /\ executionHistory = << >>
    /\ testSteps = << >>
    /\ results = << >>
    /\ success = FALSE
    /\ errorMessage = Null
    /\ playwrightCode = Null
    /\ selectors = << >>
    /\ attempt = 0
    /\ lastError = Null
    /\ outcomes = << >>
    /\ waits = << >>
    /\ retryNotes = 0
    /\ ops = << >>
    /\ emitted = [ t \in EmittedTypes |-> 0 ]
    /\ shown = << >>
    /\ thrown = FALSE
    /\ stepError = Null
    /\ report = NoReport

\* A goal run: short runs against an unconstrained oracle and browser, and
\* runs of the default length against the oracle stubs.
Init ==
    /\ pc = "new"
    /\ Fresh
    /\ page = Null
    /\ stepCount = 0
    /\ pageSnapshot = << >>
    /\ decision = NoDecision
    /\ url = Null
    /\ calls = [ snapshot |-> 0, oracle |-> 0, execute |-> 0 ]
    /\ \/ env = "menu" /\ maxSteps \in 1..MaxFreeSteps
       \/ env \in Stubs /\ maxSteps = DefaultMaxSteps
    /\ find = NoFind
    /\ twin = NoTwin
    /\ scan = NoScan
    /\ chat = NoChat
    /\ stability = NoStability

Next ==
    \/ Initialize
    \/ StartGoal
    \/ LoopTest
    \/ TakeScreenshot
    \/ GetCurrentPageSnapshot
    \/ DecideNextAction
    \/ BeginAction
    \/ Switch
    \/ Attempt
    \/ Backoff
    \/ Settle
    \/ Record
    \/ Pause
    \/ Finish
    \/ CatchGoal

Spec == Init /\ [][Next]_vars

\* One call of executeAction, made by the first step of a run, for every
\* reply of the oracle and every snapshot, against an unconstrained browser.
InitAction ==
    /\ pc = "execute"
    /\ Fresh
    /\ page = << "page" >>
    /\ env = "open"
    /\ maxSteps = DefaultMaxSteps
    /\ stepCount = 1
    /\ pageSnapshot \in Snapshots("open")
    /\ decision \in Replies("open", 1)
    /\ url = Null
    /\ find = NoFind
    /\ twin = NoTwin
    /\ calls = [ snapshot |-> 1, oracle |-> 1, execute |-> 0 ]
    /\ scan = NoScan
    /\ chat = NoChat
    /\ stability = NoStability

NextAction ==
    \/ BeginAction
    \/ Switch
    \/ Attempt
    \/ Backoff
    \/ Settle
    \/ Record

SpecAction == InitAction /\ [][NextAction]_vars

\* The candidates and budgets findElement is called with.
FindSelectors == { << "#a" >>, << ".b" >>, << "text=c" >> }
FindLists ==
    { << >>, << << "#a" >> >>, << << "#a" >>, << ".b" >> >>,
      << Null, << ".b" >>, << "#a" >> >>,
      << << "#a" >>, << ".b" >>, << "text=c" >> >> }
FindTimeouts == { DefaultTimeout, 2000 }

\* One call of findElement, on any page.
InitFind ==
    /\ pc = "findElement"
    /\ Fresh
    /\ page = << "page" >>
    /\ env = "open"
    /\ maxSteps = DefaultMaxSteps
    /\ stepCount = 0
    /\ pageSnapshot = << >>
    /\ decision = NoDecision
    /\ url = Null
    /\ calls = [ snapshot |-> 0, oracle |-> 0, execute |-> 0 ]
    /\ \E sels \in FindLists, st \in [ FindSelectors -> Status ], t \in FindTimeouts :
          find = FindCall(sels, st, t)
    /\ twin = NoTwin
    /\ scan = NoScan
    /\ chat = NoChat
    /\ stability = NoStability

NextFind ==
    \/ FindNext
    \/ FindThrow

SpecFind == InitFind /\ [][NextFind]_vars

\* A pair of calls of executeAction, on any page and with any browser.
InitTwin ==
    /\ pc = "execute"
    /\ Fresh
    /\ page = << "page" >>
    /\ env = "open"
    /\ maxSteps = DefaultMaxSteps
    /\ stepCount = 1
    /\ pageSnapshot = SnapshotForm
    /\ decision \in MenuReplies
    /\ url = Null
    /\ calls = [ snapshot |-> 1, oracle |-> 1, execute |-> 0 ]
    /\ find = NoFind
    /\ twin = [ phase |-> 1, trace |-> << ControlView >> ]
    /\ scan = NoScan
    /\ chat = NoChat
    /\ stability = NoStability

NextTwin ==
    \/ TwinFirst
    \/ TwinObserve
    \/ TwinRerun
    \/ TwinSecond

SpecTwin == InitTwin /\ [][NextTwin]_vars

\* The documents the snapshot callback is run on.
Repeat(c, n) == [ k \in 1..n |-> c ]
TextBuy == << "B", "u", "y" >>
RankIds == { Null, << "a", "1" >>, << "1", "a" >>, << "a", ":" >> }
RankTexts ==
    { Null, << "G", "o" >>, TextBuy, << " ", "B", "u", "y", "\n" >>,
      << "a", "\n", "b" >>, Repeat("x", 49), Repeat("x", 50), Repeat("x", 101) }
ClassChars == { "b", ":", "1", " " }
ClassStrings == UNION { [ 1..n -> ClassChars ] : n \in 0..MaxClassLen }
ParentClassStrings ==
    { Null, << "c" >>, << "c", ":" >>, << ":", " ", "c" >>, << "1", " ", "c", " ", "d" >> }
ChildTags == { "div", "span" }

\* One element under the root, with every combination of the attributes
\* the ranker reads.
AttributePages ==
    { << Node("main", 0),
         [ Node(tag, 1) EXCEPT !.id = id, !.testId = testId, !.dataTest = dataTest,
                               !.ariaLabel = ariaLabel, !.name = name, !.role = role,
                               !.textContent = text, !.placeholder = placeholder,
                               !.type = type, !.className = className ] >> :
        tag \in { "input", "button", "div" }, id \in RankIds,
        testId \in { Null, << "t" >> }, dataTest \in { Null, << "u" >> },
        ariaLabel \in { Null, << "l" >> }, name \in { Null, << "n" >> },
        role \in { Null, RoleTab }, text \in { Null, TextBuy },
        placeholder \in { Null, << "p" >> }, type \in { Null, TypeSubmit },
        className \in { Null, ClassBtn } }

\* One element under the root, with every text.
TextPages ==
    { << Node("main", 0),
         [ Node(tag, 1) EXCEPT !.role = role, !.textContent = text ] >> :
        tag \in { "button", "div" }, role \in { Null, RoleLink }, text \in RankTexts }

\* Two elements of one tag under a parent, with every class list.
ClassPages ==
    { << Node("main", 0),
         [ Node("div", 1) EXCEPT !.className = parentClass, !.id = parentId ],
         [ Node("span", 2) EXCEPT !.className = className, !.textContent = TextBuy ],
         [ Node("span", 2) EXCEPT !.textContent = TextBuy ] >> :
        parentClass \in ParentClassStrings, parentId \in { Null, << "p" >>, << "1", "p" >> },
        className \in ClassStrings }

\* Every arrangement of children of two tags under the root.
ArrangementPages ==
    { << Node("main", 0) >>
      \o [ k \in DOMAIN tags |-> [ Node(tags[k], 1) EXCEPT !.textContent = TextBuy ] ] :
        tags \in UNION { [ 1..m -> ChildTags ] : m \in 1..MaxChildren } }

\* The window the documents are laid out in, and the tops of their elements:
\* above the window's top edge, inside it, across its bottom edge.
WindowHeight == { 600 }
TopOf(k, stride) == ((k * stride) % 13) * 50 - 10

\* A button of a long page: matched by the interactive query.
LongButton(k) == [ Node("button", 1) EXCEPT !.top = TopOf(k, 7), !.textContent = TextBuy ]

\* A paragraph of a long page: some are clickable by their cursor, some
\* are not rendered, some have no text.
LongParagraph(k) ==
    [ Node("p", 1) EXCEPT
        !.top = TopOf(k, 5),
        !.textContent = IF k % 9 = 0 THEN Null ELSE TextBuy,
        !.cursor = IF k % 4 = 0 THEN "pointer" ELSE "auto",
        !.rendered = (k % 11 # 0) ]

LongPage(buttons, paragraphs) ==
    << Node("main", 0) >>
    \o [ k \in 1..buttons |-> LongButton(k) ]
    \o [ k \in 1..paragraphs |-> LongParagraph(k) ]

\* Pages below, at and above the two limits of the collection.
LongPages ==
    { LongPage(0, 0), LongPage(3, 4), LongPage(40, 50),
      LongPage(SnapshotLimit - 1, 30), LongPage(SnapshotLimit, 30),
      LongPage(SnapshotLimit + 5, 10), LongPage(CollectLimit + 1, 5),
      LongPage(0, CollectLimit + 20) }

ScanPages == AttributePages \cup TextPages \cup ClassPages \cup ArrangementPages \cup LongPages

\* One run of the snapshot callback, on any of the documents.
InitSnap ==
    /\ pc = "evaluate"
    /\ Fresh
    /\ page = << "page" >>
    /\ env = "open"
    /\ maxSteps = DefaultMaxSteps
    /\ stepCount = 0
    /\ pageSnapshot = << >>
    /\ decision = NoDecision
    /\ url = Null
    /\ calls = [ snapshot |-> 0, oracle |-> 0, execute |-> 0 ]
    /\ find = NoFind
    /\ twin = NoTwin
    /\ \E dom \in ScanPages, h \in WindowHeight : scan = ScanOf(dom, h)
    /\ chat = NoChat
    /\ stability = NoStability

NextSnap ==
    \/ QueryVisit
    \/ AllVisit
    \/ SortSliceIndex

SpecSnap == InitSnap /\ [][NextSnap]_vars

\* A session after a navigate command has been carried out.
ActiveSession(ws, hasSnapshot) ==
    [ NewSession(ws) EXCEPT
        !.isActive = TRUE,
        !.currentUrl = << "https://", "google.com" >>,
        !.pageSnapshot = hasSnapshot,
        !.navigations = 1,
        !.snapshotOf = IF hasSnapshot THEN 1 ELSE 0,
        !.testSteps = << << "await page.goto('", "https://", "google.com", "');" >> >> ]

\* The state of the generator, which the command server does not use.
Unused ==
    /\ Fresh
    /\ page = Null
    /\ env = "open"
    /\ maxSteps = DefaultMaxSteps
    /\ stepCount = 0
    /\ pageSnapshot = << >>
    /\ decision = NoDecision
    /\ url = Null
    /\ calls = [ snapshot |-> 0, oracle |-> 0, execute |-> 0 ]
    /\ find = NoFind
    /\ twin = NoTwin
    /\ scan = NoScan
    /\ stability = NoStability

\* The server from its start: connections open and close at any time and
\* send short messages.
InitChat ==
    /\ pc = "serve"
    /\ Unused
    /\ \E apiKey \in BOOLEAN : chat = ChatOf("sessions", apiKey)

NextChat ==
    \/ Tick
    \/ \E ws \in ConnIds : Connect(ws)
    \/ \E ws \in ConnIds, h \in HandlerIds : Message(ws, h)
    \/ \E h \in HandlerIds : OracleReply(h)
    \/ \E h \in HandlerIds, ok \in BOOLEAN : ToolReturn(h, ok)
    \/ \E ws \in ConnIds : Error(ws)
    \/ \E ws \in ConnIds : Close(ws)

SpecChat == InitChat /\ [][NextChat]_vars

\* One message on an open connection whose session is new or has
\* navigated, for every message and every answer of the oracle.
InitCommand ==
    /\ pc = "serve"
    /\ Unused
    /\ \E session \in { NewSession(1), ActiveSession(1, FALSE), ActiveSession(1, TRUE) } :
          chat = [ ChatOf("commands", TRUE) EXCEPT
                     !.conns[1] = [ state |-> "open", sessionId |-> 0 ],
                     !.activeConnections = { 1 },
                     !.activeSessions[0] = 1,
                     !.sessions[1] = session ]

NextCommand ==
    \/ \E ws \in ConnIds, h \in HandlerIds : Message(ws, h)
    \/ \E h \in HandlerIds : OracleReply(h)
    \/ \E h \in HandlerIds, ok \in BOOLEAN : ToolReturn(h, ok)

SpecCommand == InitCommand /\ [][NextCommand]_vars

\* Messages of one connection, each sent after the one before it has been
\* answered, on a session that is new or has navigated.
InitSequence ==
    /\ pc = "serve"
    /\ Unused
    /\ \E session \in { NewSession(1), ActiveSession(1, FALSE), ActiveSession(1, TRUE) } :
          chat = [ ChatOf("sequence", TRUE) EXCEPT
                     !.conns[1] = [ state |-> "open", sessionId |-> 0 ],
                     !.activeConnections = { 1 },
                     !.activeSessions[0] = 1,
                     !.sessions[1] = session ]

NextSequence ==
    \/ \E ws \in ConnIds, h \in HandlerIds : Message(ws, h)
    \/ \E h \in HandlerIds : OracleReply(h)
    \/ \E h \in HandlerIds, ok \in BOOLEAN : ToolReturn(h, ok)

SpecSequence == InitSequence /\ [][NextSequence]_vars

\* A call of waitForStability on a document that is or is not complete;
\* timers that are due fire and pending awaits settle.
InitStability ==
    /\ pc = "stability"
    /\ Fresh
    /\ page = Null
    /\ env = "open"
    /\ maxSteps = DefaultMaxSteps
    /\ stepCount = 0
    /\ pageSnapshot = << >>
    /\ decision = NoDecision
    /\ url = Null
    /\ calls = [ snapshot |-> 0, oracle |-> 0, execute |-> 0 ]
    /\ find = NoFind
    /\ twin = NoTwin
    /\ scan = NoScan
    /\ chat = NoChat
    /\ \E complete \in BOOLEAN : stability = StabilityOf(complete)

NextStability ==
    \/ \E loaded \in BOOLEAN : RaceSettles(loaded)
    \/ Evaluate
    \/ Mutation
    \/ QuietTimeout
    \/ Ceiling
    \/ SettleReturns
    \/ StabilityRejects
    \/ StabilityTick

SpecStability == InitStability /\ [][NextStability]_vars /\ WF_vars(NextStability)

\* Calls of generateTestCode on a generator that has recorded nothing or
\* some steps, with steps recorded between the calls.
InitReplay ==
    /\ pc = "replay"
    /\ Fresh
    /\ page = Null
    /\ env = "open"
    /\ maxSteps = DefaultMaxSteps
    /\ stepCount = 0
    /\ pageSnapshot = << >>
    /\ decision = NoDecision
    /\ url = Null
    /\ calls = [ snapshot |-> 0, oracle |-> 0, execute |-> 0 ]
    /\ find = NoFind
    /\ twin = NoTwin
    /\ scan = NoScan
    /\ chat = NoChat
    /\ stability = NoStability

NextReplay ==
    \/ \E testName \in TestNames : GenerateCall(testName)
    \/ \E line \in ReplayLines : PushStep(line)

SpecReplay == InitReplay /\ [][NextReplay]_vars

-----------------------------------------------------------------------------
(* Properties of the goal loop.                                            *)

IsFinal == pc = "done" /\ report.kind = "final"
IsErrorReport == pc = "done" /\ report.kind = "error"

NeverCompleted == \A i \in DOMAIN results : results[i].action # "complete"

\* The positions of executeAction.
ActionPcs == { "switch", "attempt", "backoff", "settle", "record" }

\* C1: stepCount never exceeds maxSteps; a run in which the oracle never
\* replies 'complete' and no error escapes to executeGoal's catch block
\* performs exactly maxSteps snapshot/decide/execute steps and then ends
\* with goalCompleted = false and one max_steps_reached notification.
C1_StepCeiling ==
    /\ stepCount <= maxSteps
    /\ (IsFinal /\ NeverCompleted) =>
          /\ stepCount = maxSteps
          /\ Len(results) = maxSteps
          /\ calls = [ snapshot |-> maxSteps, oracle |-> maxSteps, execute |-> maxSteps ]
          /\ ~goalCompleted
          /\ ~report.goalCompleted
          /\ emitted["max_steps_reached"] = 1
          /\ emitted["goal_completed"] = 0

\* A run of the default 15 steps against the stub that never completes.
C1_Witness ==
    /\ IsFinal
    /\ env = "never"
    /\ maxSteps = DefaultMaxSteps
    /\ Len(results) = DefaultMaxSteps
    /\ NeverCompleted
    /\ emitted["max_steps_reached"] = 1

\* C2: once the oracle's 'complete' decision of step k has been executed,
\* the loop is over after exactly k steps with goalCompleted = true: the
\* completing result is the last one, and no further snapshot, oracle call
\* or action execution is made.
C2_CompleteEndsLoop ==
    \A k \in DOMAIN results :
        results[k].action = "complete" =>
            /\ k = Len(results)
            /\ stepCount = k
            /\ goalCompleted
            /\ calls = [ snapshot |-> k, oracle |-> k, execute |-> k ]
            /\ emitted["goal_completed"] = 1
            /\ pc \in { "pause", "loop", "exit", "catch", "done" }
            /\ (IsFinal => report.goalCompleted /\ report.totalSteps = k
                           /\ Len(report.steps) = k)

\* 'complete' on the first call ends the run after one step; 'complete' at
\* a later step k ends it after k steps.
C2_Witness ==
    /\ IsFinal
    /\ report.goalCompleted
    /\ \/ env = "first" /\ stepCount = 1
       \/ env = "demo" /\ stepCount = 2

\* C3: the terminal states exclude one another: for every oracle behaviour,
\* 'complete' on the last allowed step included, a run that emits
\* goal_completed does not also emit max_steps_reached.
C3_CompletedExcludesCeiling ==
    ~(emitted["goal_completed"] > 0 /\ emitted["max_steps_reached"] > 0)

\* C4: a failed action does not end the loop: the loop is left normally
\* only on completion or at the ceiling, whatever the results were, and at
\* the oracle call of the next step the failed result is the last line of
\* the history put in the prompt.
C4_FailureDoesNotStop ==
    /\ (pc = "exit" \/ IsFinal) => (goalCompleted \/ stepCount = maxSteps)
    /\ (pc = "execute" /\ stepCount > 1) =>
          /\ Len(executionHistory) = stepCount - 1
          /\ shown # << >>
          /\ shown[Len(shown)] = executionHistory[stepCount - 1]
          /\ shown[Len(shown)] = results[stepCount - 1]

\* The oracle is called for step 2 after the action of step 1 failed.
C4_Witness ==
    /\ pc = "execute"
    /\ stepCount = 2
    /\ ~executionHistory[1].success
    /\ ~shown[1].success

\* C5: executeAction never throws to its caller: every call ends with one
\* recorded result, a failure (a caught error) is reported as
\* success = false with its message, and a decision whose action kind is
\* outside the closed set yields a recorded failed result, after which the
\* loop goes on.
C5_ExecuteNeverThrows ==
    /\ ~thrown
    /\ Len(executionHistory) = calls.execute - (IF pc \in ActionPcs THEN 1 ELSE 0)
    /\ (pc = "catch" => stepError \in { MsgClosed, MsgOracle })
    /\ (pc = "record" /\ errorMessage # Null) => ~success
    /\ \A i \in DOMAIN executionHistory :
          LET r == executionHistory[i] IN
          /\ r.error # Null => ~r.success
          /\ r.action \notin Actions =>
                ~r.success /\ r.error = MsgUnknownAction(r.action)
    /\ (pc = "exit" \/ IsFinal) => (goalCompleted \/ Len(results) = maxSteps)

\* A step is started after the step that executed an unknown action kind.
C5_Witness ==
    /\ stepCount = 2
    /\ pc = "switch"
    /\ calls.execute = 2
    /\ executionHistory[1].action = "dance"
    /\ executionHistory[1].error = MsgUnknownAction("dance")
    /\ ~executionHistory[1].success

-----------------------------------------------------------------------------
(* Properties of executeAction.                                            *)

\* The parsed target of the running decision and whether the snapshot has
\* an element at it.
TargetIndex == ParseInt(decision.target)
TargetMissing == ~HasElement(pageSnapshot, TargetIndex)

\* C6: every entry of the execution history is consistent: success = false
\* comes with a non-empty error text and success = true with an empty one,
\* for every action kind, clear and hover with no element at the target
\* index included.
C6_EntriesConsistent ==
    \A i \in DOMAIN executionHistory :
        executionHistory[i].success <=> (executionHistory[i].error = Null)

\* C7: a click, type, clear or hover whose target is not an index of the
\* snapshot ends, unless the browser was closed under it, with
\* success = false and the element-not-found error in its result, and no
\* operation on an element was issued.
C7_MissingElementFails ==
    (/\ pc = "record"
     /\ decision.action \in ElementActions
     /\ TargetMissing
     /\ errorMessage # MsgClosed) =>
        /\ ~success
        /\ errorMessage = MsgIndexNotFound(TargetIndex)
        /\ outcomes = << >>
        /\ Range(ops) \subseteq
               { "waitForTimeout(2000)", "waitForTimeout(1500)", "waitForStability" }

FailedAttempts == { i \in DOMAIN outcomes : ~outcomes[i].ok }

\* C8: executeActionWithRetry invokes the action at most 3 times and stops
\* at the first invocation that returns; the wait after failed attempt k,
\* for k < 3, lasts k x 1000 ms and there is no wait after the third; when
\* all 3 invocations throw, the error of the third is what the call throws,
\* which executeAction's catch block records.
C8_RetryBound ==
    pc \in ActionPcs =>
        /\ Len(outcomes) <= maxRetries
        /\ \A i \in DOMAIN outcomes : outcomes[i].ok => i = Len(outcomes)
        /\ (outcomes # << >> /\ outcomes[Len(outcomes)].ok) =>
               pc \in { "settle", "record" }
        /\ Len(waits) <= maxRetries - 1
        /\ \A k \in DOMAIN waits : waits[k] = k * 1000
        /\ Len(waits) \in { Cardinality(FailedAttempts) - 1, Cardinality(FailedAttempts) }
                          \cup { 0 }
        /\ pc = "attempt" => (Len(waits) = Len(outcomes) /\ attempt = Len(outcomes) + 1)
        /\ pc = "backoff" => (Len(waits) = Len(outcomes) - 1 /\ attempt = Len(outcomes))
        /\ Cardinality(FailedAttempts) = maxRetries =>
               /\ pc = "record"
               /\ waits = << 1000, 2000 >>
               /\ ~success
               /\ errorMessage = outcomes[maxRetries].err
               /\ errorMessage # Null

\* Three throwing invocations whose errors differ: the third one is recorded.
C8_Witness ==
    /\ pc = "record"
    /\ Len(outcomes) = 3
    /\ ~outcomes[3].ok
    /\ outcomes[2].err # outcomes[3].err
    /\ errorMessage = outcomes[3].err
    /\ waits = << 1000, 2000 >>

\* C9: the number of 'retry' notifications of a retry call is the number of
\* failed attempts that another attempt follows, min(f, maxRetries - 1); a
\* call that fails twice and then succeeds gives success = true with
\* exactly 2 notifications.
C9_RetryNotifications ==
    pc \in ActionPcs =>
        LET f == Cardinality(FailedAttempts) IN
        /\ retryNotes = (IF f < maxRetries - 1 THEN f ELSE maxRetries - 1)
        /\ (/\ Len(outcomes) = 3
            /\ ~outcomes[1].ok /\ ~outcomes[2].ok /\ outcomes[3].ok
            /\ errorMessage = Null) =>
               success /\ retryNotes = 2

\* A click that throws twice and then returns.
C9_Witness ==
    /\ pc = "record"
    /\ decision.action = "click"
    /\ Len(outcomes) = 3
    /\ ~outcomes[1].ok /\ ~outcomes[2].ok /\ outcomes[3].ok
    /\ success
    /\ retryNotes = 2

\* What is truthy of xs, in order.
NonEmpty(xs) == SelectSeq(xs, LAMBDA x : x # Null)

\* C10: the candidate list of a click is the test-id selector and then the
\* id selector of the descriptor, each when present, followed by the
\* non-empty ones of: the oracle's selector, the descriptor's primary,
\* fallback and tertiary selectors, the oracle's fallback selectors.
C10_ClickCandidates ==
    (pc \in { "attempt", "backoff", "settle" } /\ decision.action = "click") =>
        LET el == ElementAt(pageSnapshot, TargetIndex)
            testId == IF el.dataTestId # Null
                      THEN << << "[data-testid=\"" >> \o el.dataTestId \o << "\"]" >> >>
                      ELSE << >>
            id == IF el.id # Null THEN << << "#" >> \o el.id >> ELSE << >>
        IN  selectors =
                testId \o id
                \o NonEmpty(<< decision.selector, el.selector, el.fallbackSelector,
                               el.tertiarySelector >>)
                \o NonEmpty(decision.fallbackSelectors)

\* A click on a descriptor that has both an id and a test-id but no
\* tertiary selector, with an oracle selector and oracle fallbacks of which
\* one is empty.
C10_Witness ==
    /\ pc = "attempt"
    /\ decision.action = "click"
    /\ pageSnapshot = SnapshotFive
    /\ decision.target = << "2" >>
    /\ selectors = << << "[data-testid=\"", "go-link", "\"]" >>, << "#", "go" >>,
                      << "button.primary" >>, << "#", "go" >>,
                      << "[data-testid=\"", "go-link", "\"]" >>,
                      << "a.cta" >>, << "text=Go" >> >>

\* Where x first occurs in xs; Len(xs) + 1 when it does not occur.
FirstIndex(xs, x) ==
    IF x \in Range(xs)
    THEN CHOOSE i \in DOMAIN xs : xs[i] = x /\ \A j \in 1..(i - 1) : xs[j] # x
    ELSE Len(xs) + 1

\* C11: for type, clear and hover, as for click, the id and test-id selectors
\* of the targeted descriptor are tried before the oracle's selector, and
\* the descriptor's tertiary selector and the oracle's fallback selectors
\* are in the candidate list.
C11_PromotionForEveryKind ==
    (/\ pc \in { "attempt", "backoff" }
     /\ decision.action \in { "type", "clear", "hover" }) =>
        LET el == ElementAt(pageSnapshot, TargetIndex) IN
        /\ (el.id # Null /\ decision.selector # Null) =>
               FirstIndex(selectors, << "#" >> \o el.id)
                   < FirstIndex(selectors, decision.selector)
        /\ (el.dataTestId # Null /\ decision.selector # Null) =>
               FirstIndex(selectors, << "[data-testid=\"" >> \o el.dataTestId \o << "\"]" >>)
                   < FirstIndex(selectors, decision.selector)
        /\ el.tertiarySelector # Null => el.tertiarySelector \in Range(selectors)
        /\ Range(decision.fallbackSelectors) \ { Null } \subseteq Range(selectors)

-----------------------------------------------------------------------------
(* Properties of the settle, the records and the report.                   *)

\* Whether the fixed pause of the post-action settle was issued.
SettlePaused == "waitForTimeout(1500)" \in Range(ops)

\* Whether the decision asks for the settle: waitAfter is not false and the
\* kind is neither wait nor complete.
SettleWanted == decision.waitAfter /\ decision.action \notin { "wait", "complete" }

\* C14: an executed action (one whose closure was invoked) is followed,
\* before executeAction returns and unless the browser was closed under it,
\* by the 1500 ms pause and the stability wait exactly when waitAfter is not
\* false and its kind is not wait or complete.
C14_SettleFollows ==
    (pc = "record" /\ outcomes # << >> /\ errorMessage # MsgClosed) =>
        /\ SettlePaused <=> SettleWanted
        /\ (SettlePaused /\ errorMessage = Null) =>
               /\ Len(ops) >= 2
               /\ ops[Len(ops) - 1] = "waitForTimeout(1500)"
               /\ ops[Len(ops)] = "waitForStability"

\* C15: every call of executeAction appends one entry to executionHistory
\* and one line to testSteps, for a success and for a failure alike: both
\* lengths are the number of calls that have returned, and line i is the
\* replay code of entry i.
C15_OneEntryOneLine ==
    LET returned == calls.execute - (IF pc \in ActionPcs THEN 1 ELSE 0) IN
    /\ Len(executionHistory) = returned
    /\ Len(testSteps) = returned
    /\ \A i \in DOMAIN testSteps :
          testSteps[i] = << "    " >> \o executionHistory[i].playwrightCode

\* Two calls have returned, one with a success and one with a failure.
C15_Witness ==
    /\ pc = "pause"
    /\ Len(testSteps) = 2
    /\ executionHistory[1].success
    /\ ~executionHistory[2].success

\* C16: the replay line of a failed action is a '// Failed: ...' comment:
\* never an executable statement and never an empty line.
C16_FailedLinesAnnotated ==
    \A i \in DOMAIN executionHistory :
        ~executionHistory[i].success =>
            /\ Len(testSteps[i]) >= 2
            /\ testSteps[i][1] = "    "
            /\ testSteps[i][2] = "// Failed: "

\* The history shown at an oracle call is the most recent min(5, length)
\* entries, in their order.
ShownIsRecent ==
    pc = "execute" =>
        LET n == Len(executionHistory)
            m == IF n < 5 THEN n ELSE 5
        IN  /\ Len(shown) = m
            /\ \A i \in 1..m : shown[i] = executionHistory[n - m + i]

\* A step leaves executionHistory as it is or appends one entry to it.
AppendOnly ==
    \/ executionHistory' = executionHistory
    \/ /\ Len(executionHistory') = Len(executionHistory) + 1
       /\ SubSeq(executionHistory', 1, Len(executionHistory)) = executionHistory

\* C17: within a run executionHistory is append-only (no entry is removed,
\* reordered or modified), and the history shown to the oracle at each step
\* is the most recent min(5, length) entries in their original order.
C17_HistoryAppendOnly == []ShownIsRecent /\ [][AppendOnly]_vars

\* The oracle is called with 7 entries in the history and is shown the last 5.
C17_Witness ==
    /\ pc = "execute"
    /\ Len(executionHistory) = 7
    /\ Len(shown) = 5
    /\ shown[1] = executionHistory[3]
    /\ shown[1] # executionHistory[1]

\* The replay script of the recorded results.
ScriptOf(rs) ==
    GenerateTestCode(Goal, [ i \in DOMAIN rs |-> << "    " >> \o rs[i].playwrightCode ])

\* C18: when the screenshot, the snapshot, the oracle call or the parsing of
\* its reply fails at step k, executeGoal makes no further step and returns
\* a report with success = false, goalCompleted = false, the k - 1 results
\* recorded before the failure and the replay script of those results.
C18_ErrorReport ==
    (pc = "done" /\ stepError # Null) =>
        /\ report.kind = "error"
        /\ ~report.success
        /\ ~report.goalCompleted
        /\ report.error = stepError
        /\ report.steps = results
        /\ report.testCode = ScriptOf(results)
        /\ report.successfulSteps + report.failedSteps = Len(results)
        /\ calls.snapshot <= stepCount /\ calls.oracle <= stepCount
        /\ calls.execute < stepCount =>
               /\ Len(report.steps) = stepCount - 1
               /\ calls.execute = stepCount - 1

\* The oracle call of step 2 fails after one recorded result.
C18_Witness ==
    /\ IsErrorReport
    /\ stepError = MsgOracle
    /\ stepCount = 2
    /\ Len(report.steps) = 1
    /\ calls = [ snapshot |-> 2, oracle |-> 2, execute |-> 1 ]

-----------------------------------------------------------------------------
(* Properties of the navigate case.                                        *)

\* C20: the URL a navigate action loads and records is the target itself
\* when the target begins with the scheme http:// or https://, and https://
\* followed by the target for every other target, hostnames that begin
\* with the letters http included.
C20_BareHostGetsScheme ==
    (/\ pc = "attempt" \/ (pc \in { "backoff", "settle", "record" } /\ outcomes # << >>)
     /\ decision.action = "navigate"
     /\ decision.target # Null) =>
        LET expected == IF Head(decision.target) \in { "http://", "https://" }
                        THEN decision.target
                        ELSE << "https://" >> \o decision.target
        IN  /\ url = expected
            /\ success =>
                  playwrightCode =
                      << "await page.goto('" >> \o expected
                      \o << "', { waitUntil: 'domcontentloaded' });" >>

-----------------------------------------------------------------------------
(* Properties of findElement.                                              *)

\* The positions of the candidates that match an attached, visible and
\* enabled element.
GoodPositions ==
    { k \in DOMAIN find.sels : find.sels[k] # Null /\ find.st[find.sels[k]] = "ok" }

\* The non-empty candidates among the first n, in list order.
CandidatesUpTo(n) == SelectSeq(SubSeq(find.sels, 1, n), LAMBDA s : s # Null)

\* C12: findElement tries the candidates in list order and returns the
\* first one whose element is attached, visible and enabled; a candidate
\* that does not match, or matches a hidden or disabled element, is skipped
\* and the later ones are still tried; when no candidate qualifies, the
\* empty list included, the call throws an error and returns no element.
C12_FirstQualifyingWins ==
    /\ find.state \in { "loop", "returned", "thrown" } =>
          find.tried = CandidatesUpTo(IF find.state = "returned" THEN find.i - 1
                                      ELSE IF find.i - 1 < Len(find.sels) THEN find.i - 1
                                      ELSE Len(find.sels))
    /\ find.state = "loop" =>
          \A k \in GoodPositions : k >= find.i
    /\ find.state = "returned" =>
          /\ GoodPositions # { }
          /\ LET first == CHOOSE k \in GoodPositions : \A j \in GoodPositions : k <= j
             IN  /\ find.selector = find.sels[first]
                 /\ find.tried = CandidatesUpTo(first)
          /\ find.error = Null
    /\ find.state = "thrown" =>
          /\ GoodPositions = { }
          /\ find.selector = Null
          /\ find.error # Null
          /\ find.tried = CandidatesUpTo(Len(find.sels))
    /\ find.state \in { "returned", "thrown" } =>
          LET f == FindElement(find.sels, find.st) IN
          /\ f.found = (find.state = "returned")
          /\ f.selector = find.selector
          /\ f.tried = find.tried
          /\ f.error = find.error

\* The first candidate is empty, the second matches a disabled element and
\* the third one is returned.
C12_Witness ==
    /\ find.state = "returned"
    /\ find.sels = << Null, << ".b" >>, << "#a" >> >>
    /\ find.st[<< ".b" >>] = "disabled"
    /\ find.selector = << "#a" >>
    /\ find.tried = << << ".b" >>, << "#a" >> >>

\* C13: one call of findElement with budget T spends at most T in total
\* waiting for selectors, whatever the number of candidates: the waits come
\* out of one shared budget.
C13_SharedBudget ==
    find.state \in { "loop", "returned", "thrown" } => find.waited <= find.timeout

-----------------------------------------------------------------------------
(* Properties of the audit fields.                                         *)

\* The ranks of the trace at which the first call was in the current
\* control state.
TwinRanks == { n \in DOMAIN twin.trace : twin.trace[n] = ControlView }

\* C19: the reasoning, description and confidence of a decision do not
\* affect control flow: a call of executeAction on a decision that differs
\* in these fields only, against a browser that behaves the same, goes
\* through the same control states (the same browser operations, retries
\* and success flags) step by step and ends in the same state after the
\* same number of steps.
C19_AuditFieldsInert ==
    twin.phase = 2 =>
        /\ TwinRanks # { }
        /\ \A n \in TwinRanks :
              IF n < Len(twin.trace)
              THEN pc # "pause" /\ ENABLED TwinSecond
              ELSE pc = "pause"

\* The second call, on a decision with another description and confidence,
\* has returned after the same failed retries as the first.
C19_Witness ==
    /\ twin.phase = 2
    /\ pc = "pause"
    /\ decision.description = << "something else" >>
    /\ decision.confidence = << "low" >>
    /\ decision.action = "click"
    /\ ~executionHistory[1].success
    /\ Len(twin.trace) >= 8

-----------------------------------------------------------------------------
(* Properties of the page snapshotter.                                     *)

\* The elements of a finished snapshot.
Finished == scan.phase = "done"

\* C21: a snapshot holds at most 75 descriptors, their index values are
\* 0..len-1 in list order, every interactable descriptor precedes every
\* non-interactable one, among descriptors of equal interactability those
\* in the viewport precede those outside it, and the remaining ties are in
\* ascending vertical position.
C21_SnapshotOrdered ==
    Finished =>
        LET es == scan.elements IN
        /\ Len(es) <= 75
        /\ \A k \in DOMAIN es : es[k].index = k - 1
        /\ \A j, k \in DOMAIN es :
              j < k =>
                /\ es[k].isInteractable => es[j].isInteractable
                /\ es[j].isInteractable = es[k].isInteractable =>
                      /\ es[k].inViewport => es[j].inViewport
                      /\ es[j].inViewport = es[k].inViewport => es[j].y <= es[k].y

\* A snapshot cut to 75 descriptors of both kinds, inside and outside the
\* viewport, from a longer page.
C21_Witness ==
    /\ Finished
    /\ Len(scan.elements) = 75
    /\ Len(scan.dom) > 76
    /\ \E j, k \in DOMAIN scan.elements :
          /\ scan.elements[j].isInteractable /\ ~scan.elements[k].isInteractable
          /\ scan.elements[j].inViewport /\ ~scan.elements[j + 1].inViewport
          /\ scan.elements[j + 1].isInteractable


\* The number of descriptors the interactive query contributes.
CollectedByQuery ==
    Cardinality({ k \in DOMAIN scan.dom :
        MatchesInteractiveQuery(scan.dom[k]) /\ IsVisible(scan.dom[k], scan.innerHeight) })

\* C22: the pass over all elements adds a descriptor only while fewer than
\* 75 are collected: the candidate set that is sorted and cut holds no more
\* than 75 descriptors, or no more than the interactive query collected
\* when that alone is more.
C22_GenericPassStopsAtCap ==
    scan.phase \in { "all", "sort" } =>
        Len(scan.elements) <= IF CollectedByQuery >= 75 THEN CollectedByQuery ELSE 75


\* The element a descriptor of the running scan describes.
ElementOf(d) == scan.dom[d.node]

Collected == scan.phase \in { "query", "all", "sort", "done" }

\* C23: the primary selector of every element whose id matches the
\* identifier pattern is '#' followed by the id, whatever other attributes
\* the element has.
C23_SafeIdIsPrimary ==
    Collected =>
        \A k \in DOMAIN scan.elements :
            LET d == scan.elements[k] IN
            SafePattern(ElementOf(d).id) => d.selector = << "#" >> \o ElementOf(d).id

\* A descriptor of an element with a safe id and every other attribute the
\* ranker has a rule for.
C23_Witness ==
    /\ Collected
    /\ \E k \in DOMAIN scan.elements :
          LET d == scan.elements[k] IN
          /\ ElementOf(d).id = << "a", "1" >>
          /\ Truthy(ElementOf(d).testId) /\ Truthy(ElementOf(d).dataTest)
          /\ Truthy(ElementOf(d).ariaLabel) /\ Truthy(ElementOf(d).name)
          /\ Truthy(ElementOf(d).role) /\ Truthy(ElementOf(d).placeholder)
          /\ Truthy(ElementOf(d).className) /\ Truthy(ElementOf(d).type)
          /\ ElementOf(d).tag = "input"
          /\ d.selector = << "#", "a", "1" >>


\* A class token that may be written into a selector.
SafeToken(t) == SafePattern(t) /\ ~Includes(t, ":")

\* The parts of a selector after its first '.', cut at every '.'.
DottedParts(sel) == Tail(Split(sel, "."))

\* The part of a positional selector that names the parent.
ParentPart(sel) == SubSeq(sel, 1, IndexOf(sel, " > "))

\* C24: a class token that contains ':' or does not match the identifier
\* pattern is in no generated selector: the classes of the tag.class
\* selector, the parent class of the positional selector and the classes
\* of the descriptor's className are all safe tokens.
C24_UnsafeClassesLeftOut ==
    Collected =>
        \A k \in DOMAIN scan.elements :
            LET d == scan.elements[k]
                generated == Pushed(scan.dom, d.node)
            IN  /\ \A c \in DOMAIN generated :
                      /\ generated[c].score = 70 =>
                            \A p \in DOMAIN DottedParts(generated[c].selector) :
                                SafeToken(DottedParts(generated[c].selector)[p])
                      /\ generated[c].score = 60 /\ ~Truthy(scan.dom[ElementOf(d).parent].id) =>
                            \A p \in DOMAIN DottedParts(ParentPart(generated[c].selector)) :
                                SafeToken(DottedParts(ParentPart(generated[c].selector))[p])
                /\ Truthy(d.className) =>
                      \A p \in DOMAIN Split(d.className, " ") :
                          SafeToken(Split(d.className, " ")[p])

\* A descriptor of an element that has a safe and an unsafe class, under a
\* parent that has a safe and an unsafe class: both selectors are generated
\* from the safe ones.
C24_Witness ==
    /\ Collected
    /\ \E k \in DOMAIN scan.elements :
          LET d == scan.elements[k] IN
          /\ ElementOf(d).className = << "b", " ", ":" >>
          /\ scan.dom[ElementOf(d).parent].className = << ":", " ", "c" >>
          /\ d.className = << "b" >>
          /\ d.selector = << "span", ".", "b" >>
          /\ d.fallbackSelector = << "div", ".", "c", " > ", "span", ":nth-child(", "1", ")" >>


\* The three selector slots of a descriptor.
Slots(d) == << d.selector, d.fallbackSelector, d.tertiarySelector >>

\* The number of candidates that score higher than candidate c.
Above(generated, c) ==
    Cardinality({ k \in DOMAIN generated : generated[k].score > generated[c].score })

\* C25: the primary, fallback and tertiary selectors are the three
\* highest-scoring candidates in descending order of score, the filled
\* slots are pairwise distinct, and an empty slot is followed by empty
\* slots only.
C25_TopThreeByScore ==
    Collected =>
        \A k \in DOMAIN scan.elements :
            LET d == scan.elements[k]
                generated == Pushed(scan.dom, d.node)
            IN  /\ \A s \in 1..3 :
                      IF s <= Len(generated)
                      THEN /\ Truthy(Slots(d)[s])
                           /\ \E c \in DOMAIN generated :
                                 /\ generated[c].selector = Slots(d)[s]
                                 /\ Above(generated, c) = s - 1
                      ELSE Slots(d)[s] = Null
                /\ \A s, t \in 1..3 :
                      s < t /\ Truthy(Slots(d)[s]) /\ Truthy(Slots(d)[t]) =>
                          Slots(d)[s] # Slots(d)[t]
                /\ ~Truthy(d.selector) => ~Truthy(d.fallbackSelector)
                /\ ~Truthy(d.fallbackSelector) => ~Truthy(d.tertiarySelector)

\* A descriptor of an element with four candidates, pushed in another order
\* than their scores.
C25_Witness ==
    /\ scan.phase = "sort"
    /\ \E k \in DOMAIN scan.elements :
          LET d == scan.elements[k] IN
          /\ Len(Pushed(scan.dom, d.node)) = 4
          /\ d.selector = << "button", ":has-text(\"", "B", "u", "y", "\")" >>
          /\ d.fallbackSelector = << "button", ".", "b", "t", "n" >>
          /\ d.tertiarySelector = << "[placeholder=\"", "p", "\"]" >>

\* The number a string of decimal digits writes.
RECURSIVE ParseDecimal(_)
ParseDecimal(s) ==
    IF s = << >> THEN 0
    ELSE ParseDecimal(SubSeq(s, 1, Len(s) - 1)) * 10
         + (CHOOSE v \in 0..9 : DigitChars[v + 1] = s[Len(s)])

\* Whether a simple selector (#id, tag or tag.class) matches an element.
MatchesSimple(sel, element) ==
    \/ Truthy(element.id) /\ sel = << "#" >> \o element.id
    \/ /\ sel[1] = element.tag
       /\ \A p \in DOMAIN DottedParts(sel) :
             \E q \in DOMAIN Split(element.className, " ") :
                 Split(element.className, " ")[q] = DottedParts(sel)[p]

\* Whether the selector 'P > tag:nth-child(n)' matches the element at
\* position i: the element has the tag, is the n-th of all the children of
\* its parent, and the parent matches P.
MatchesPositional(sel, dom, i) ==
    LET gt == IndexOf(sel, " > ") + 1
        n == ParseDecimal(SubSeq(sel, gt + 3, Len(sel) - 1))
        all == Children(dom, dom[i].parent)
    IN  /\ sel[gt + 1] = dom[i].tag
        /\ n <= Len(all) /\ all[n] = i
        /\ MatchesSimple(SubSeq(sel, 1, gt - 1), dom[dom[i].parent])

\* C26: the parent-scoped positional selector generated for an element
\* that has siblings of its tag matches that element, for every arrangement
\* of the children of its parent.
C26_PositionalSelectorMatches ==
    Collected =>
        \A k \in DOMAIN scan.elements :
            LET d == scan.elements[k]
                generated == Pushed(scan.dom, d.node)
            IN  \A c \in DOMAIN generated :
                    generated[c].score = 60 =>
                        MatchesPositional(generated[c].selector, scan.dom, d.node)

\* The same for the elements all of whose earlier siblings have their tag.
C26_MatchesAfterSameTagSiblings ==
    Collected =>
        \A k \in DOMAIN scan.elements :
            LET d == scan.elements[k]
                generated == Pushed(scan.dom, d.node)
                all == Children(scan.dom, ElementOf(d).parent)
            IN  \A c \in DOMAIN generated :
                    /\ generated[c].score = 60
                    /\ \A j \in DOMAIN all :
                          all[j] < d.node => scan.dom[all[j]].tag = ElementOf(d).tag
                    => MatchesPositional(generated[c].selector, scan.dom, d.node)


-----------------------------------------------------------------------------
(* Properties of the command server.                                       *)

\* The words and word pairs fallbackParser looks for.
Keywords ==
    { "navigate", "open", "visit", "click", "type", "input", "search", "scroll",
      "screenshot", "capture", "enter", "wait" }
KeyPhrases ==
    { << "generate", "test" >>, << "create", "test" >>, << "test", "case" >>,
      << "test", "code" >>, << "go", "to" >>, << "enter", "text" >>,
      << "take", "picture" >> }

\* A message with no keyword, no key phrase and no host name.
Unmatchable(message) ==
    /\ \A j \in DOMAIN message :
          Lower(message[j]) \notin Keywords /\ DomainOf(message[j]) = << >>
    /\ \A j \in 1..(Len(message) - 1) :
          << Lower(message[j]), Lower(message[j + 1]) >> \notin KeyPhrases

\* The handlers whose call of processCommand has returned.
Decided == { h \in HandlerIds : chat.handlers[h].reply # NoReply }

\* C27: the fallback parser returns an action for every message; a message
\* it cannot match becomes an 'unknown' action that carries the message;
\* and an 'unknown' action is answered with one error and is not executed:
\* its handler ends without a call of executeAction, without a browser tool
\* call and without a replay step.
C27_UnknownIsSurfaced ==
    chat.scope = "commands" =>
        \A h \in Decided :
            LET run == chat.handlers[h] IN
            /\ fallbackParser(run.message).action \in validActions \cup { "unknown" }
            /\ Unmatchable(run.message) =>
                  fallbackParser(run.message) =
                      [ Command("unknown") EXCEPT !.message = run.message ]
            /\ run.command.action = "unknown" =>
                  /\ run.command.message = run.message
                  /\ run.pc = "done"
                  /\ run.errors = 1
                  /\ run.decisions = 0
                  /\ run.tools = << >>
                  /\ run.steps = 0
                  /\ chat.sessions[run.session].testSteps
                        \in { << >>, ActiveSession(1, TRUE).testSteps }

\* An unmatched message on a session that has navigated, after the oracle
\* failed: the handler has ended with the error.
C27_Witness ==
    /\ chat.scope = "commands"
    /\ \E h \in Decided :
          LET run == chat.handlers[h] IN
          /\ run.message = << "dance", "hello" >>
          /\ run.reply.kind = "failed"
          /\ chat.sessions[run.session].isActive
          /\ run.command.action = "unknown"
          /\ run.pc = "done" /\ run.errors = 1 /\ run.tools = << >>


\* A reply that is no action object, has no action kind or one outside the
\* closed set, or lacks a field its kind requires.
InvalidReply(reply) ==
    \/ reply.kind # "object"
    \/ reply.obj.action \notin { "navigate", "click", "type", "search", "scroll", "wait",
                                 "screenshot", "press_key", "generate_test" }
    \/ reply.obj.action = "navigate" /\ reply.obj.url = Null
    \/ reply.obj.action = "type" /\ reply.obj.text = Null
    \/ reply.obj.action = "search" /\ reply.obj.query = Null

\* The handlers that have called executeAction.
Executing == { h \in Decided : chat.handlers[h].decisions > 0 }

\* C28: every command that reaches executeAction has an action kind of the
\* closed set, and an invalid reply of the oracle is never executed: the
\* command executed in its place is the one the fallback parser reads from
\* the message.
C28_OnlyValidatedCommandsRun ==
    chat.scope = "commands" =>
        /\ \A h \in Executing :
              LET run == chat.handlers[h] IN
              /\ run.command.action \in
                    { "navigate", "click", "type", "search", "scroll", "wait",
                      "screenshot", "press_key", "generate_test" }
              /\ InvalidReply(run.reply) =>
                    /\ run.command # run.reply.obj
                    /\ run.command = fallbackParser(run.message)
        /\ \A h \in Decided :
              chat.handlers[h].tools # << >> \/ chat.handlers[h].steps > 0 => h \in Executing

\* A navigate reply without url to the message 'visit google.com': the
\* command of the fallback parser is executed.
C28_Witness ==
    /\ chat.scope = "commands"
    /\ \E h \in Executing :
          LET run == chat.handlers[h] IN
          /\ run.reply = Reply("object", Command("navigate"))
          /\ run.message = << "visit", "google.com" >>
          /\ run.command.url = << "https://", "google.com" >>
          /\ run.tools = << "browser_initialize", "page_navigate" >>
          /\ run.steps = 1


\* The handlers between the start and the end of their processing.
InProgress == { h \in HandlerIds : chat.handlers[h].pc \in { "oracle", "tool" } }

\* C29: at most one command of a connection is being processed at any
\* time, whatever messages arrive and whenever they arrive.
C29_OneCommandAtATime ==
    chat.scope = "sessions" =>
        \A g, h \in InProgress : chat.handlers[g].conn = chat.handlers[h].conn => g = h

\* C30: two connections that are open at the same time have distinct
\* session identifiers, and each has its own session record registered
\* under its identifier as long as it is open.
C30_SessionsIndependent ==
    chat.scope = "sessions" =>
        \A c, d \in ConnIds :
            IsOpen(c) /\ IsOpen(d) =>
                /\ chat.activeSessions[chat.conns[c].sessionId] = c
                /\ c # d => chat.conns[c].sessionId # chat.conns[d].sessionId



-----------------------------------------------------------------------------
(* Properties of the session lifecycle.                                    *)

\* The connections whose socket has closed or failed after a session was
\* created for them.
TornDown == { c \in ConnIds : chat.conns[c].state \in { "closed", "errored" } }

\* C31: once a connection has closed or failed, its session is no longer
\* registered in activeSessions, its socket is no longer in
\* activeConnections, and the cleanup of its handler has been invoked
\* exactly once, also when the error and the close event both arrive.
C31_TornDownOnce ==
    chat.scope = "sessions" =>
        \A c \in TornDown :
            /\ \A t \in Times : chat.activeSessions[t] # c
            /\ c \notin chat.activeConnections
            /\ chat.sessions[c].cleanups = 1

\* The same property of the connections that never shared their session
\* identifier with another connection.
C31_TornDownOnceWithOwnId ==
    chat.scope = "sessions" =>
        \A c \in TornDown :
            (\A d \in ConnIds \ { c } :
                chat.conns[d].state = "none"
                \/ chat.conns[d].sessionId # chat.conns[c].sessionId) =>
                    /\ \A t \in Times : chat.activeSessions[t] # c
                    /\ c \notin chat.activeConnections
                    /\ chat.sessions[c].cleanups = 1

\* C32: the browser of a session is not torn down while a command of that
\* session is still being processed.
C32_NoTeardownInFlight ==
    chat.scope = "sessions" =>
        \A h \in InProgress :
            chat.handlers[h].session # 0 =>
                chat.sessions[chat.handlers[h].session].cleanups = 0


\* C33: after a navigation has succeeded, a later click, type or search
\* never looks its target up in a snapshot that was taken before that
\* navigation, whether or not the snapshot after the navigation succeeded.
C33_NoStaleSnapshotRead ==
    chat.scope = "sequence" =>
        \A h \in HandlerIds : ~chat.handlers[h].stale


-----------------------------------------------------------------------------
(* Properties of the stability wait.                                       *)

\* The in-page wait has gone on no longer than the hard ceiling.
WithinCeiling ==
    /\ stability.phase = "observe" => stability.now - stability.started <= HardCeiling
    /\ stability.resolved => stability.waited <= HardCeiling

\* C34: the stability wait always completes: whether the page never
\* mutates or never stops mutating, the in-page wait resolves no later
\* than the hard ceiling of five seconds, and waitForStability returns to
\* its caller without throwing.
C34_StabilityWaitCompletes ==
    /\ [](WithinCeiling /\ (stability.phase = "done" => stability.outcome = "returned"))
    /\ <>(stability.phase = "done")

\* A page that kept mutating is released by the hard ceiling.
C34_Witness ==
    /\ stability.phase = "done"
    /\ stability.outcome = "returned"
    /\ stability.mutated
    /\ ~stability.quiet
    /\ ~stability.warned
    /\ stability.waited = HardCeiling

\* A page that never mutates is released by the hard ceiling.
C34_NeverMutating ==
    /\ stability.phase = "done"
    /\ ~stability.mutated
    /\ ~stability.complete
    /\ ~stability.warned
    /\ stability.waited = HardCeiling


-----------------------------------------------------------------------------
(* Properties of the replay script.                                        *)

\* The calls of generateTestCode made so far.
Generations == DOMAIN twin.trace

-----------------------------------------------------------------------------
(* Properties of the browser of a session.                                 *)

\* The handlers that have called browser_initialize and have not seen the
\* call fail.
Initializing ==
    { h \in HandlerIds :
        LET run == chat.handlers[h] IN
        \/ run.pc = "tool" /\ run.queue # << >> /\ Head(run.queue) = "browser_initialize"
        \/ /\ run.tools # << >>
           /\ run.tools[1] = "browser_initialize"
           /\ ~(Len(run.tools) = 1 /\ run.pc = "done") }

\* C36: the browser of a session is initialized at most once, also when
\* several navigate commands arrive on the connection before the first
\* initialization has finished.
C36_InitializedOnce ==
    chat.scope = "sessions" =>
        \A g, h \in Initializing :
            chat.handlers[g].session = chat.handlers[h].session => g = h


\* The commands that need a page to act on.
Guarded == { "click", "type", "search", "scroll", "wait", "press_key", "screenshot" }

\* The handlers whose call of browser_initialize has returned.
InitializedBy ==
    { h \in HandlerIds :
        LET run == chat.handlers[h] IN
        /\ run.tools # << >>
        /\ run.tools[1] = "browser_initialize"
        /\ ~(Len(run.tools) = 1 /\ run.pc = "done") }

\* C37: a click, type, search, scroll, wait, press_key or screenshot
\* command calls a browser tool only on a session whose browser has been
\* initialized; on any other session it is answered with one error and
\* nothing else, and a session whose browser_initialize failed is not
\* active.
C37_ToolsNeedActiveSession ==
    chat.scope = "sequence" =>
        /\ \A h \in Executing :
              LET run == chat.handlers[h]
                  session == chat.sessions[run.session]
              IN  run.command.action \in Guarded =>
                    /\ run.pc = "tool" \/ run.tools # << >> => session.isActive
                    /\ ~session.isActive =>
                          run.pc = "done" /\ run.tools = << >> /\ run.errors = 1
        /\ \A c \in ConnIds :
              chat.sessions[c].isActive =>
                  chat.sessions[c].navigations > 0 \/ InitializedBy # {}

\* A click on a session whose browser_initialize has failed is answered
\* with an error and calls no tool.
C37_Witness ==
    /\ chat.scope = "sequence"
    /\ chat.handlers[1].tools = << "browser_initialize" >>
    /\ chat.handlers[1].pc = "done"
    /\ ~chat.sessions[1].isActive
    /\ chat.handlers[2].command.action = "click"
    /\ chat.handlers[2].decisions = 1
    /\ chat.handlers[2].pc = "done"
    /\ chat.handlers[2].tools = << >>
    /\ chat.handlers[2].errors = 1


\* C38: every socket in activeConnections is the socket of a session in
\* activeSessions, and the socket of a connection that was rejected or has
\* closed is not in activeConnections.
C38_ConnectionsHaveSessions ==
    chat.scope = "sessions" =>
        \A ws \in chat.activeConnections :
            /\ \E t \in Times :
                  /\ chat.activeSessions[t] # 0
                  /\ chat.sessions[chat.activeSessions[t]].ws = ws
            /\ chat.conns[ws].state \notin { "refused", "closed" }


-----------------------------------------------------------------------------
(* Properties of the final report.                                         *)

\* C39: in every report executeGoal returns, from the normal and from the
\* error path, totalSteps is the number of entries of steps and the sum
\* of successfulSteps and failedSteps.
C39_SummaryCountsSteps ==
    report.kind # "none" =>
        /\ report.totalSteps = Len(report.steps)
        /\ report.totalSteps = report.successfulSteps + report.failedSteps

\* The same property of the reports of the normal path.
C39_FinalSummaryCountsSteps ==
    report.kind = "final" =>
        /\ report.totalSteps = Len(report.steps)
        /\ report.totalSteps = report.successfulSteps + report.failedSteps


-----------------------------------------------------------------------------
(* Properties of id-based selectors.                                       *)

\* The id an id-based selector names: what follows '#', up to the ' > '
\* of a positional selector.
IdOf(sel) ==
    IF IndexOf(sel, " > ") >= 0 THEN Tail(ParentPart(sel)) ELSE Tail(sel)

IsIdBased(sel) == sel # << >> /\ Head(sel) = "#"

\* The ids of the selectors the executor puts in its click list for a
\* descriptor of the snapshot are safe identifiers.
C40_ExecutorIdsSafe ==
    Collected =>
        \A k \in DOMAIN scan.elements :
            LET tried == ClickSelectors(Plain("click", Decimal(k - 1), Null),
                                        scan.elements[k])
            IN  \A n \in DOMAIN tried :
                    IsIdBased(tried[n]) => SafePattern(IdOf(tried[n]))

\* The ids of the selectors the ranker generates are safe identifiers.
C40_RankerIdsSafe ==
    Collected =>
        \A k \in DOMAIN scan.elements :
            LET generated == Pushed(scan.dom, scan.elements[k].node)
            IN  \A c \in DOMAIN generated :
                    IsIdBased(generated[c].selector) =>
                        SafePattern(IdOf(generated[c].selector))

\* C40: every id-based selector the executor tries or the ranker embeds
\* in a selector names an id that matches the safe-identifier pattern; an
\* element or parent id that does not match it produces no '#id' selector.
C40_IdSelectorsSafe == C40_ExecutorIdsSafe /\ C40_RankerIdsSafe

=============================================================================
